---- MODULE Spec2Model ----
(***************************************************************************)
(* Model of infra/config/migration: the conversion of legacy test-suite    *)
(* definitions (python values) to starlark source text.                    *)
(*                                                                         *)
(*   starlark_conversions.py   convert_arg, convert_args, convert_direct,  *)
(*                             convert_resultdb/_swarming/_skylab          *)
(*   post_migrate_targets_lib.py  convert_basic_suite,                     *)
(*                             convert_compound_suite,                     *)
(*                             convert_matrix_compound_suite                *)
(*   values.py                 the value builders and their rendering      *)
(*                             (modelled from the design document and the  *)
(*                             expected outputs of the unit tests)         *)
(*                                                                         *)
(* A python string is a sequence of symbols; a symbol is one character or  *)
(* a block of characters that no operation of the program splits.  Text    *)
(* produced by the program is a sequence of symbols as well, so quoting,   *)
(* escaping, indentation and line breaks are all computed.                 *)
(***************************************************************************)
EXTENDS Integers, Sequences, FiniteSets, TLC

VARIABLES
    op,         \* the entry point this run calls
    input,      \* its argument, a python value
    pc,         \* position of the call: "start", "loop", "output", "done", "raised"
    idx,        \* number of entries of the input mapping already processed
    heap,       \* the builders created by the call, by identity
    locals,     \* the local variables of the call that outlive one loop iteration
    result,     \* what the call returned
    error,      \* the exception the call raised
    renders,    \* how often output()/to_output() was called on a top-level builder
    history     \* the calls the caller made before this one, with their outcomes

vars == <<op, input, pc, idx, heap, locals, result, error, renders, history>>

----------------------------------------------------------------------------
(* Symbols and strings *)

DQ == "\""
BS == "\\"
NL == "\n"
SP == " "

\* A python string literal of one symbol.
S(x) == <<x>>

Digits == <<"0", "1", "2", "3", "4", "5", "6", "7", "8", "9">>

RECURSIVE IntStr(_)
\* str(n) for an int: its decimal digits, with a minus sign if negative.
IntStr(n) ==
    IF n < 0 THEN <<"-">> \o IntStr(-n)
    ELSE IF n < 10 THEN <<Digits[n + 1]>>
    ELSE IntStr(n \div 10) \o <<Digits[(n % 10) + 1]>>

RECURSIVE Flatten(_)
\* The concatenation of a sequence of sequences.
Flatten(ss) == IF ss = <<>> THEN <<>> ELSE Head(ss) \o Flatten(Tail(ss))

\* A slip: '"{}"'.format(value), nothing is escaped.
ReplaceQuoteNone(s) == s

\* A slip: the backslash is escaped as well.
ReplaceQuoteAndBackslash(s) ==
    Flatten([i \in 1..Len(s) |-> IF s[i] \in {DQ, BS} THEN <<BS, s[i]>> ELSE <<s[i]>>])

\* str.replace('"', '\\"'): every double quote becomes backslash, double quote.
ReplaceQuote(s) ==
    Flatten([i \in 1..Len(s) |-> IF s[i] = DQ THEN <<BS, DQ>> ELSE <<s[i]>>])

MagicPrefix == "$$MAGIC_SUBSTITUTION_"

\* str.startswith('$$MAGIC_SUBSTITUTION_')
StartsWithMagic(s) == Len(s) >= 1 /\ s[1] = MagicPrefix

----------------------------------------------------------------------------
(* Python values: None, bool, int, str, list, dict (a sequence of key/value *)
(* pairs in iteration order) and values of any other type, which carry      *)
(* their repr().                                                            *)

PyNone == [t |-> "none", v |-> <<>>]
PyBool(b) == [t |-> "bool", v |-> b]
PyInt(n) == [t |-> "int", v |-> n]
PyStr(s) == [t |-> "str", v |-> s]
PyList(es) == [t |-> "list", v |-> es]
PyDict(kvs) == [t |-> "dict", v |-> kvs]
PyOther(repr) == [t |-> "other", v |-> repr]

\* A dict literal with string keys: pairs <<key, value>>.
KV(k, v) == <<PyStr(S(k)), v>>

----------------------------------------------------------------------------
(* Exceptions and results of calls that may raise *)

NoErr == [kind |-> "none", msg |-> <<>>]
Exc(msg) == [kind |-> "Exception", msg |-> msg]
KeyErr(key) == [kind |-> "KeyError", msg |-> key]

NoVal == [t |-> "atom", s |-> <<>>]
Ok(v) == [err |-> NoErr, val |-> v]
Raise(e) == [err |-> e, val |-> NoVal]
Failed(r) == r.err.kind # "none"

\* f'unhandled key in <schema>: "{key}"'
UnhandledKey(schema, key) ==
    Exc(<<"unhandled key in ", schema, ": ", DQ>> \o key \o <<DQ>>)

----------------------------------------------------------------------------
(* values.py: a Value is a str holding starlark text (an atom) or a         *)
(* ValueBuilder.  A builder that some local variable keeps mutating lives   *)
(* on the heap and is held by reference; a builder that is complete when    *)
(* it is returned is held as a tree.                                        *)

Atom(s) == [t |-> "atom", s |-> s]
Tree(b) == [t |-> "tree", b |-> b]
Ref(id) == [t |-> "ref", id |-> id]

NoElide == <<>>
Item(k, v) == [k |-> k, v |-> v]

\* ListValueBuilder(elements)
ListValueBuilder(elems) ==
    [kind |-> "list", name |-> <<>>, elide |-> NoElide,
     items |-> [i \in 1..Len(elems) |-> Item(<<>>, elems[i])]]

\* DictValueBuilder(), CallValueBuilder(name, params, elide_param=...)
DictValueBuilder(items) ==
    [kind |-> "dict", name |-> <<>>, elide |-> NoElide, items |-> items]

CallValueBuilder(name, items, elide) ==
    [kind |-> "call", name |-> name, elide |-> elide, items |-> items]

\* ListValueBuilder.append
Append_(b, v) == [b EXCEPT !.items = Append(@, Item(<<>>, v))]

\* A slip: assigning to an existing key moves the key to the end.
SetItemMoveToEnd(b, k, v) ==
    LET Other(item) == item.k # k
    IN  [b EXCEPT !.items = Append(SelectSeq(@, Other), Item(k, v))]

\* __setitem__ of DictValueBuilder and CallValueBuilder: mapping assignment,
\* an existing key keeps its position and takes the new value.
SetItem(b, k, v) ==
    IF \E i \in 1..Len(b.items) : b.items[i].k = k
    THEN [b EXCEPT !.items =
            [i \in 1..Len(b.items) |->
                IF b.items[i].k = k THEN Item(k, v) ELSE b.items[i]]]
    ELSE [b EXCEPT !.items = Append(@, Item(k, v))]

\* The text of a rendering, or nothing (python None).
Some(s) == [none |-> FALSE, s |-> s]
None == [none |-> TRUE, s |-> <<>>]

Indent(n) == [i \in 1..n |-> SP]

RECURSIVE RenderValue(_, _, _), RenderBuilder(_, _, _)
\* The text of value v as it stands in heap h, for a line indented by n spaces.
RenderValue(h, v, n) ==
    CASE v.t = "atom" -> Some(v.s)
      [] v.t = "tree" -> RenderBuilder(h, v.b, n)
      [] v.t = "ref" -> RenderBuilder(h, h[v.id], n)

\* ValueBuilder.output: the children that render to something, one per line,
\* each indented by two more spaces and followed by a comma.  A call whose
\* only parameter is its elide_param renders as that parameter's value; a
\* call with nothing to show renders to nothing and its container leaves it
\* out.
RenderBuilder(h, b, n) ==
    LET outs == [i \in 1..Len(b.items) |-> RenderValue(h, b.items[i].v, n + 2)]
        line(i) ==
            Indent(n + 2)
            \o (CASE b.kind = "list" -> <<>>
                  [] b.kind = "dict" -> b.items[i].k \o <<":", SP>>
                  [] b.kind = "call" -> b.items[i].k \o <<SP, "=", SP>>)
            \o outs[i].s \o <<",", NL>>
        body == Flatten([i \in 1..Len(b.items) |->
                            IF outs[i].none THEN <<>> ELSE line(i)])
        empty == \A i \in 1..Len(b.items) : outs[i].none
    IN  CASE b.kind = "list" ->
                IF empty THEN Some(<<"[", "]">>)
                ELSE Some(<<"[", NL>> \o body \o Indent(n) \o <<"]">>)
          [] b.kind = "dict" ->
                IF empty THEN Some(<<"{", "}">>)
                ELSE Some(<<"{", NL>> \o body \o Indent(n) \o <<"}">>)
          [] b.kind = "call" ->
                IF b.elide # NoElide /\ Len(b.items) = 1 /\ b.items[1].k = b.elide
                THEN RenderValue(h, b.items[1].v, n)
                ELSE IF empty THEN None
                ELSE Some(b.name \o <<"(", NL>> \o body \o Indent(n) \o <<")">>)

\* values.to_output(value): the top-level rendering, at indentation 0.
to_output(h, v) == RenderValue(h, v, 0)

----------------------------------------------------------------------------
(* starlark_conversions.py *)

\* _MAGIC_ARG_MAPPING: the remainder of the magic string after the prefix,
\* and the constant of targets.magic_args it stands for.
_MAGIC_ARG_MAPPING ==
    [n \in {"AndroidDesktopTelemetryRemote", "ChromeOSTelemetryRemote",
            "ChromeOSGtestFilterFile", "GPUExpectedVendorId",
            "GPUExpectedDeviceId", "GPUParallelJobs",
            "GPUTelemetryNoRootForUnrootedDevices", "GPUWebGLRuntimeFile"} |->
        CASE n = "AndroidDesktopTelemetryRemote" -> "ANDROID_DESKTOP_TELEMETRY_REMOTE"
          [] n = "ChromeOSTelemetryRemote" -> "CROS_TELEMETRY_REMOTE"
          [] n = "ChromeOSGtestFilterFile" -> "CROS_GTEST_FILTER_FILE"
          [] n = "GPUExpectedVendorId" -> "GPU_EXPECTED_VENDOR_ID"
          [] n = "GPUExpectedDeviceId" -> "GPU_EXPECTED_DEVICE_ID"
          [] n = "GPUParallelJobs" -> "GPU_PARALLEL_JOBS"
          [] n = "GPUTelemetryNoRootForUnrootedDevices" ->
                "GPU_TELEMETRY_NO_ROOT_FOR_UNROOTED_DEVICES"
          [] n = "GPUWebGLRuntimeFile" -> "GPU_WEBGL_RUNTIME_FILE"]

\* arg in _MAGIC_ARG_MAPPING: the whole string is the prefix and one name of
\* the table.
InMagicMapping(s) ==
    Len(s) = 2 /\ s[1] = MagicPrefix /\ s[2] \in DOMAIN _MAGIC_ARG_MAPPING

RECURSIVE convert_direct(_)

\* A slip: a bool is taken for the int it is (str(int(value))).
DirectScalarBoolAsInt(value) ==
    CASE value.t = "none" -> Ok(Atom(<<"None">>))
      [] value.t = "bool" -> Ok(Atom(IF value.v THEN <<"1">> ELSE <<"0">>))
      [] value.t = "int" -> Ok(Atom(IntStr(value.v)))

\* str(value) for None, a bool and an int.
DirectScalar(value) ==
    CASE value.t = "none" -> Ok(Atom(<<"None">>))
      [] value.t = "bool" -> Ok(Atom(IF value.v THEN <<"True">> ELSE <<"False">>))
      [] value.t = "int" -> Ok(Atom(IntStr(value.v)))

\* A slip: a magic string is replaced by its constant wherever it stands.
DirectStrMagic(value) ==
    IF StartsWithMagic(value.v)
    THEN IF InMagicMapping(value.v)
         THEN Ok(Atom(<<"targets.magic_args.", _MAGIC_ARG_MAPPING[value.v[2]]>>))
         ELSE Raise(KeyErr(value.v))
    ELSE Ok(Atom(<<DQ>> \o ReplaceQuote(value.v) \o <<DQ>>))

\* '"{}"'.format(value.replace("\"", "\\\""))
DirectStr(value) == Ok(Atom(<<DQ>> \o ReplaceQuote(value.v) \o <<DQ>>))

\* values.ListValueBuilder([convert_direct(e) for e in value]): the first
\* element that raises ends the comprehension.
DirectList(value) ==
    LET rs == [i \in 1..Len(value.v) |-> convert_direct(value.v[i])]
        bad == {i \in 1..Len(value.v) : Failed(rs[i])}
    IN  IF bad # {}
        THEN rs[CHOOSE i \in bad : \A j \in bad : i <= j]
        ELSE Ok(Tree(ListValueBuilder(
                [i \in 1..Len(value.v) |-> rs[i].val])))

\* A slip: {k: convert_direct(v) for k, v in value.items()}, a string key is
\* used as it is.
DirectDictKeysRaw(value) ==
    LET n == Len(value.v)
        rs == [i \in 1..(2 * n) |->
                LET x == value.v[(i + 1) \div 2][2 - (i % 2)]
                IN  IF i % 2 = 1 /\ x.t = "str" THEN Ok(Atom(x.v))
                    ELSE convert_direct(x)]
        bad == {i \in 1..(2 * n) : Failed(rs[i])}
        set(b, i) == SetItem(b, rs[2 * i - 1].val.s, rs[2 * i].val)
        build[i \in 0..n] ==
            IF i = 0 THEN DictValueBuilder(<<>>)
            ELSE set(build[i - 1], i)
    IN  IF bad # {}
        THEN rs[CHOOSE i \in bad : \A j \in bad : i <= j]
        ELSE Ok(Tree(build[n]))

\* values.DictValueBuilder({convert_direct(k): convert_direct(v) for k, v in
\* value.items()}): the comprehension evaluates key, then value, entry by
\* entry.
DirectDict(value) ==
    LET n == Len(value.v)
        rs == [i \in 1..(2 * n) |->
                convert_direct(value.v[(i + 1) \div 2][2 - (i % 2)])]
        bad == {i \in 1..(2 * n) : Failed(rs[i])}
        set(b, i) == SetItem(b, rs[2 * i - 1].val.s, rs[2 * i].val)
        build[i \in 0..n] ==
            IF i = 0 THEN DictValueBuilder(<<>>)
            ELSE set(build[i - 1], i)
    IN  IF bad # {}
        THEN rs[CHOOSE i \in bad : \A j \in bad : i <= j]
        ELSE Ok(Tree(build[n]))

\* A slip: a value of another type falls through to str(value).
DirectOtherStr(value) == Ok(Atom(value.v))

\* raise Exception(f'unhandled python value: {value!r}')
DirectOther(value) == Raise(Exc(<<"unhandled python value: ">> \o value.v))

\* convert_direct(value)
convert_direct(value) ==
    CASE value.t \in {"none", "bool", "int"} -> DirectScalar(value)
      [] value.t = "str" -> DirectStr(value)
      [] value.t = "list" -> DirectList(value)
      [] value.t = "dict" -> DirectDict(value)
      [] OTHER -> DirectOther(value)

\* A slip: _MAGIC_ARG_MAPPING.get(arg), and a string outside the table is
\* passed on as a literal.
convert_arg_get(arg) ==
    IF StartsWithMagic(arg.v) /\ InMagicMapping(arg.v)
    THEN Ok(Atom(<<"targets.magic_args.", _MAGIC_ARG_MAPPING[arg.v[2]]>>))
    ELSE convert_direct(arg)

\* convert_arg(arg): _MAGIC_ARG_MAPPING[arg] raises KeyError for a string
\* that is not a key of the table.
convert_arg(arg) ==
    IF StartsWithMagic(arg.v)
    THEN IF InMagicMapping(arg.v)
         THEN Ok(Atom(<<"targets.magic_args.", _MAGIC_ARG_MAPPING[arg.v[2]]>>))
         ELSE Raise(KeyErr(arg.v))
    ELSE convert_direct(arg)

\* A slip: the list is converted by convert_direct, element by element.
convert_args_direct(args) == convert_direct(args)

\* convert_args(args)
convert_args(args) ==
    LET rs == [i \in 1..Len(args.v) |-> convert_arg(args.v[i])]
        bad == {i \in 1..Len(args.v) : Failed(rs[i])}
    IN  IF bad # {}
        THEN rs[CHOOSE i \in bad : \A j \in bad : i <= j]
        ELSE Ok(Tree(ListValueBuilder([i \in 1..Len(args.v) |-> rs[i].val])))

\* The loop shared by the three sub-schema converters (the keys of a mapping
\* are strings): for each key of the mapping in iteration order, the parameter named params[key] takes
\* convert_direct(value); a key outside DOMAIN params raises.
RECURSIVE ConvertKeys(_, _, _, _, _)
ConvertKeys(schema, params, kvs, i, builder) ==
    IF i > Len(kvs) THEN Ok(Tree(builder))
    ELSE LET key == kvs[i][1].v
             r == convert_direct(kvs[i][2])
         IN  IF Len(key) = 1 /\ key[1] \in DOMAIN params
             THEN IF Failed(r) THEN r
                  ELSE ConvertKeys(schema, params, kvs, i + 1,
                                   SetItem(builder, S(params[key[1]]), r.val))
             ELSE Raise(UnhandledKey(schema, key))

ResultdbParams == [k \in {"enable"} |-> k]

\* A slip: the name of the parameter is accepted as a key as well.
SwarmingParamsAlso ==
    [k \in {"dimensions", "idempotent", "service_account", "shards",
            "expiration", "hard_timeout", "io_timeout", "expiration_sec"} |->
        CASE k = "expiration" -> "expiration_sec"
          [] k = "hard_timeout" -> "hard_timeout_sec"
          [] k = "io_timeout" -> "io_timeout_sec"
          [] OTHER -> k]

\* A slip: hard_timeout is given the parameter name of expiration.
SwarmingParamsCopied ==
    [k \in {"dimensions", "idempotent", "service_account", "shards",
            "expiration", "hard_timeout", "io_timeout"} |->
        CASE k = "expiration" -> "expiration_sec"
          [] k = "hard_timeout" -> "expiration_sec"
          [] k = "io_timeout" -> "io_timeout_sec"
          [] OTHER -> k]

SwarmingParams ==
    [k \in {"dimensions", "idempotent", "service_account", "shards",
            "expiration", "hard_timeout", "io_timeout"} |->
        CASE k = "expiration" -> "expiration_sec"
          [] k = "hard_timeout" -> "hard_timeout_sec"
          [] k = "io_timeout" -> "io_timeout_sec"
          [] OTHER -> k]

SkylabParams == [k \in {"shards", "timeout_sec"} |-> k]

\* A slip: the call is given the elision parameter enable.
convert_resultdb_elided(resultdb) ==
    ConvertKeys("resultdb", ResultdbParams, resultdb.v, 1,
                CallValueBuilder(S("targets.resultdb"), <<>>, S("enable")))

\* convert_resultdb(resultdb)
convert_resultdb(resultdb) ==
    ConvertKeys("resultdb", ResultdbParams, resultdb.v, 1,
                CallValueBuilder(S("targets.resultdb"), <<>>, NoElide))

\* convert_swarming(swarming)
convert_swarming(swarming) ==
    ConvertKeys("swarming", SwarmingParams, swarming.v, 1,
                CallValueBuilder(S("targets.swarming"), <<>>, NoElide))

\* convert_skylab(skylab)
convert_skylab(skylab) ==
    ConvertKeys("skylab", SkylabParams, skylab.v, 1,
                CallValueBuilder(S("targets.skylab"), <<>>, NoElide))

----------------------------------------------------------------------------
(* post_migrate_targets_lib.py: convert_basic_suite *)

\* `match key` against string literals: the key is that one-symbol string.
KeyIn(key, names) == Len(key) = 1 /\ key[1] \in names

IgnoredKeys ==
    {"results_handler", "script", "telemetry_test_name", "test", "test_common"}
DirectKeys == {"ci_only", "experiment_percentage", "use_isolated_scripts_api"}
ArgsKeys ==
    {"android_args", "chromeos_args", "desktop_args", "args", "lacros_args",
     "linux_args"}
SwarmingKeys == {"android_swarming", "chromeos_swarming", "swarming"}

\* The literal that heads every remove_mixins list.
RemoveMixinsSentinel ==
    <<DQ, "DO NOT SUBMIT ensure all remove mixins values are present", DQ>>

\* A slip: the wrong parameter is named as the one to elide.
ElideParamRemoveMixins == S("remove_mixins")

\* A slip: no parameter is elided.
ElideParamMissing == NoElide

\* elide_param of the targets.per_test_modification call.
ElideParam == S("mixins")

\* The state of one iteration of `for test_name, test in suite.items()`:
\* the heap, mixins_builder (0 is None) and the exception raised, if any.
\* anon and mods are the heap ids of anonymous_mixin_builder and
\* modifications_builder.
TestState(h) == [h |-> h, mixins |-> 0, err |-> NoErr]

\* anonymous_mixin_builder[param] = <result of a conversion>, which may raise
PutAnon(st, anon, param, r) ==
    IF Failed(r) THEN [st EXCEPT !.err = r.err]
    ELSE [st EXCEPT !.h[anon] = SetItem(@, param, r.val)]

RECURSIVE AppendAll(_, _, _, _)
\* for e in value: builder.append(convert_direct(e)), on the builder at id
AppendAll(st, id, es, i) ==
    IF i > Len(es) THEN st
    ELSE LET r == convert_direct(es[i])
         IN  IF Failed(r) THEN [st EXCEPT !.err = r.err]
             ELSE AppendAll([st EXCEPT !.h[id] = Append_(@, r.val)], id, es, i + 1)

\* A slip: the value of an ignored key is converted, and dropped.
CaseIgnoredConverted(st, anon, mods, key, value) ==
    LET r == convert_direct(value)
    IN  IF Failed(r) THEN [st EXCEPT !.err = r.err] ELSE st

\* case 'results_handler' | 'script' | ...: pass
CaseIgnored(st, anon, mods, key, value) == st

CaseDirect(st, anon, mods, key, value) ==
    PutAnon(st, anon, key, convert_direct(value))

\* A slip: an argument list is converted like any other list.
CaseArgsDirect(st, anon, mods, key, value) ==
    PutAnon(st, anon, key, convert_direct(value))

CaseArgs(st, anon, mods, key, value) ==
    PutAnon(st, anon, key, convert_args(value))

CaseResultdb(st, anon, mods, key, value) ==
    PutAnon(st, anon, S("resultdb"), convert_resultdb(value))

\* A slip: the three keys all assign the parameter swarming.
CaseSwarmingOneName(st, anon, mods, key, value) ==
    PutAnon(st, anon, S("swarming"), convert_swarming(value))

CaseSwarming(st, anon, mods, key, value) ==
    PutAnon(st, anon, key, convert_swarming(value))

CaseSkylab(st, anon, mods, key, value) ==
    PutAnon(st, anon, key, convert_skylab(value))

\* A slip: the mixins parameter is assigned where the key is met, and not
\* after the loop.
CaseMixinsEager(st, anon, mods, key, value) ==
    LET id == Len(st.h) + 1
        h1 == Append(st.h, ListValueBuilder(<<Ref(anon)>>))
        st1 == [st EXCEPT
                  !.h = [h1 EXCEPT ![mods] = SetItem(@, S("mixins"), Ref(id))],
                  !.mixins = id]
    IN  AppendAll(st1, id, value.v, 1)

\* A slip: the list of the named mixins starts empty, without the anonymous
\* mixin.
CaseMixinsNamedOnly(st, anon, mods, key, value) ==
    LET id == Len(st.h) + 1
        st1 == [st EXCEPT !.h = Append(@, ListValueBuilder(<<>>)),
                          !.mixins = id]
    IN  AppendAll(st1, id, value.v, 1)

\* A slip: the list holds a copy of the anonymous mixin as it is when the
\* key is met.
CaseMixinsCopied(st, anon, mods, key, value) ==
    LET id == Len(st.h) + 1
        st1 == [st EXCEPT !.h = Append(@, ListValueBuilder(<<Tree(st.h[anon])>>)),
                          !.mixins = id]
    IN  AppendAll(st1, id, value.v, 1)

\* mixins_builder = ListValueBuilder([anonymous_mixin_builder]); the list
\* holds the builder itself, which later keys keep mutating.
CaseMixins(st, anon, mods, key, value) ==
    LET id == Len(st.h) + 1
        st1 == [st EXCEPT !.h = Append(@, ListValueBuilder(<<Ref(anon)>>)),
                          !.mixins = id]
    IN  AppendAll(st1, id, value.v, 1)

\* A slip: the sentinel is added after the names, not before.
CaseRemoveMixinsSentinelLast(st, anon, mods, key, value) ==
    LET id == Len(st.h) + 1
        h1 == Append(st.h, ListValueBuilder(<<>>))
        st1 == [st EXCEPT
                  !.h = [h1 EXCEPT ![mods] = SetItem(@, S("remove_mixins"), Ref(id))]]
        st2 == AppendAll(st1, id, value.v, 1)
    IN  IF st2.err.kind # "none" THEN st2
        ELSE [st2 EXCEPT !.h[id] = Append_(@, Atom(RemoveMixinsSentinel))]

CaseRemoveMixins(st, anon, mods, key, value) ==
    LET id == Len(st.h) + 1
        h1 == Append(st.h, ListValueBuilder(<<Atom(RemoveMixinsSentinel)>>))
        st1 == [st EXCEPT
                  !.h = [h1 EXCEPT ![mods] = SetItem(@, S("remove_mixins"), Ref(id))]]
    IN  AppendAll(st1, id, value.v, 1)

\* A slip: `case _: pass`, the key is dropped.
CaseUnhandledPass(st, anon, mods, key, value) == st

\* A slip: the key is escaped like a string literal in the message.
CaseUnhandledEscaped(st, anon, mods, key, value) ==
    [st EXCEPT !.err = UnhandledKey("basic suite test definition",
                                    ReplaceQuote(key))]

CaseUnhandled(st, anon, mods, key, value) ==
    [st EXCEPT !.err = UnhandledKey("basic suite test definition", key)]

\* The match statement of convert_basic_suite, for one key of a test.
MatchKey(st, anon, mods, key, value) ==
    CASE KeyIn(key, IgnoredKeys) -> CaseIgnored(st, anon, mods, key, value)
      [] KeyIn(key, DirectKeys) -> CaseDirect(st, anon, mods, key, value)
      [] KeyIn(key, ArgsKeys) -> CaseArgs(st, anon, mods, key, value)
      [] KeyIn(key, {"resultdb"}) -> CaseResultdb(st, anon, mods, key, value)
      [] KeyIn(key, SwarmingKeys) -> CaseSwarming(st, anon, mods, key, value)
      [] KeyIn(key, {"skylab"}) -> CaseSkylab(st, anon, mods, key, value)
      [] KeyIn(key, {"mixins"}) -> CaseMixins(st, anon, mods, key, value)
      [] KeyIn(key, {"remove_mixins"}) -> CaseRemoveMixins(st, anon, mods, key, value)
      [] OTHER -> CaseUnhandled(st, anon, mods, key, value)

RECURSIVE TestItems(_, _, _, _, _)
\* for key, value in test.items(): the first exception ends the loop.
TestItems(st, anon, mods, kvs, j) ==
    IF j > Len(kvs) \/ st.err.kind # "none" THEN st
    ELSE TestItems(MatchKey(st, anon, mods, kvs[j][1].v, kvs[j][2]),
                   anon, mods, kvs, j + 1)

\* mixins_builder or anonymous_mixin_builder
MixinsOrAnon(st, anon, mods) ==
    IF st.mixins # 0 THEN Ref(st.mixins) ELSE Ref(anon)

\* modifications_builder['mixins'] = mixins_builder or anonymous_mixin_builder
FinishTest(st, anon, mods) ==
    [st EXCEPT !.h[mods] = SetItem(@, S("mixins"), MixinsOrAnon(st, anon, mods))]

\* A slip: the entry of per_test_modifications is keyed by the name as given,
\* not by the converted name.
ConvertTestRawKey(h, targets, per_test, test_name, test) ==
    LET name == convert_direct(test_name)
        anon == Len(h) + 1
        mods == Len(h) + 2
        h1 == [h EXCEPT ![targets] = Append_(@, name.val)]
        h2 == h1 \o <<CallValueBuilder(S("targets.mixin"), <<>>, NoElide),
                      CallValueBuilder(S("targets.per_test_modification"), <<>>,
                                       ElideParam)>>
        h3 == [h2 EXCEPT ![per_test] = SetItem(@, test_name.v, Ref(mods))]
        st == TestItems(TestState(h3), anon, mods, test.v, 1)
    IN  IF Failed(name) THEN [TestState(h) EXCEPT !.err = name.err]
        ELSE IF st.err.kind # "none" THEN st
        ELSE FinishTest(st, anon, mods)

\* One iteration of the loop over the tests of the suite, from the heap h:
\* test_name is the key of the entry, test its value.
ConvertTest(h, targets, per_test, test_name, test) ==
    LET name == convert_direct(test_name)
        anon == Len(h) + 1
        mods == Len(h) + 2
        h1 == [h EXCEPT ![targets] = Append_(@, name.val)]
        h2 == h1 \o <<CallValueBuilder(S("targets.mixin"), <<>>, NoElide),
                      CallValueBuilder(S("targets.per_test_modification"), <<>>,
                                       ElideParam)>>
        h3 == [h2 EXCEPT ![per_test] = SetItem(@, name.val.s, Ref(mods))]
        st == TestItems(TestState(h3), anon, mods, test.v, 1)
    IN  IF Failed(name) THEN [TestState(h) EXCEPT !.err = name.err]
        ELSE IF st.err.kind # "none" THEN st
        ELSE FinishTest(st, anon, mods)

NoLocals == [targets |-> 0, per_test |-> 0, ret |-> NoVal]

Returned(k, text) == [k |-> k, v |-> text]

\* A slip: the two builders are created once and shared by the calls.
BasicStartShared ==
    /\ op = "basic" /\ pc = "start"
    /\ heap' = IF Len(heap) >= 2 THEN heap
               ELSE <<ListValueBuilder(<<>>), DictValueBuilder(<<>>)>>
    /\ locals' = [locals EXCEPT !.targets = 1, !.per_test = 2]
    /\ pc' = "loop"
    /\ UNCHANGED <<op, input, history, idx, result, error, renders>>

\* targets_builder and per_test_modifications_builder are created by the
\* call.
BasicStart ==
    /\ op = "basic" /\ pc = "start"
    /\ heap' = <<ListValueBuilder(<<>>), DictValueBuilder(<<>>)>>
    /\ locals' = [locals EXCEPT !.targets = 1, !.per_test = 2]
    /\ pc' = "loop"
    /\ UNCHANGED <<op, input, history, idx, result, error, renders>>

\* A slip: the list of targets is rendered after every test.
BasicTestRendered ==
    /\ op = "basic" /\ pc = "loop" /\ idx < Len(input.v)
    /\ LET st == ConvertTest(heap, locals.targets, locals.per_test,
                             input.v[idx + 1][1], input.v[idx + 1][2])
       IN  /\ heap' = st.h
           /\ error' = st.err
           /\ pc' = IF st.err.kind # "none" THEN "raised" ELSE "loop"
           /\ idx' = IF st.err.kind # "none" THEN idx ELSE idx + 1
    /\ renders' = Append(renders, locals.targets)
    /\ UNCHANGED <<op, input, history, locals, result>>

BasicTest ==
    /\ op = "basic" /\ pc = "loop" /\ idx < Len(input.v)
    /\ LET st == ConvertTest(heap, locals.targets, locals.per_test,
                             input.v[idx + 1][1], input.v[idx + 1][2])
       IN  /\ heap' = st.h
           /\ error' = st.err
           /\ pc' = IF st.err.kind # "none" THEN "raised" ELSE "loop"
           /\ idx' = IF st.err.kind # "none" THEN idx ELSE idx + 1
    /\ UNCHANGED <<op, input, history, locals, result, renders>>

BasicOutput ==
    /\ op = "basic" /\ pc = "loop" /\ idx = Len(input.v)
    /\ result' = <<Returned("targets", to_output(heap, Ref(locals.targets))),
                   Returned("per_test_modifications",
                            to_output(heap, Ref(locals.per_test)))>>
    /\ renders' = renders \o <<locals.targets, locals.per_test>>
    /\ pc' = "done"
    /\ UNCHANGED <<op, input, history, idx, heap, locals, error>>

----------------------------------------------------------------------------
(* post_migrate_targets_lib.py: convert_compound_suite and                  *)
(* convert_matrix_compound_suite                                            *)

\* A slip: the names are converted as arguments (convert_args).
CompoundCallArgs ==
    /\ op = "compound" /\ pc = "start"
    /\ LET r == convert_args(input)
       IN  IF Failed(r)
           THEN /\ error' = r.err /\ pc' = "raised"
                /\ UNCHANGED <<result, renders, locals>>
           ELSE /\ result' = <<Returned("targets", to_output(heap, r.val))>>
                /\ locals' = [locals EXCEPT !.ret = r.val]
                /\ renders' = Append(renders, 0)
                /\ pc' = "done"
                /\ UNCHANGED error
    /\ UNCHANGED <<op, input, history, idx, heap>>

\* convert_compound_suite(suite)
CompoundCall ==
    /\ op = "compound" /\ pc = "start"
    /\ LET r == convert_direct(input)
       IN  IF Failed(r)
           THEN /\ error' = r.err /\ pc' = "raised"
                /\ UNCHANGED <<result, renders, locals>>
           ELSE /\ result' = <<Returned("targets", to_output(heap, r.val))>>
                /\ locals' = [locals EXCEPT !.ret = r.val]
                /\ renders' = Append(renders, 0)
                /\ pc' = "done"
                /\ UNCHANGED error
    /\ UNCHANGED <<op, input, history, idx, heap>>

RECURSIVE MatrixItems(_, _, _)
\* for key, value in matrix_config.items(), on bundle_builder; the result
\* is the builder or the exception.
MatrixItems(bundle, kvs, j) ==
    IF j > Len(kvs) THEN Ok(Tree(bundle))
    ELSE LET key == kvs[j][1].v
             r == convert_direct(kvs[j][2])
         IN  IF KeyIn(key, {"mixins", "variants"})
             THEN IF Failed(r) THEN r
                  ELSE MatrixItems(SetItem(bundle, key, r.val), kvs, j + 1)
             ELSE Raise(UnhandledKey("matrix config", key))

\* A slip: the parameter targets is assigned after the keys of the matrix
\* config.
ConvertMatrixEntryTargetsLast(suite_name, matrix_config) ==
    LET name == convert_direct(suite_name)
        r == MatrixItems(CallValueBuilder(S("targets.bundle"), <<>>, NoElide),
                         matrix_config.v, 1)
    IN  IF Failed(name) THEN name
        ELSE IF Len(matrix_config.v) = 0 THEN name
        ELSE IF Failed(r) THEN r
        ELSE Ok(Tree(SetItem(r.val.b, S("targets"), name.val)))

\* One iteration of the loop over the entries of a matrix compound suite:
\* the value appended to targets_builder, or the exception.
ConvertMatrixEntry(suite_name, matrix_config) ==
    LET name == convert_direct(suite_name)
    IN  IF Failed(name) THEN name
        ELSE IF Len(matrix_config.v) = 0 THEN name
        ELSE MatrixItems(
                CallValueBuilder(S("targets.bundle"),
                                 <<Item(S("targets"), name.val)>>, NoElide),
                matrix_config.v, 1)

\* A slip: targets_builder is created once and shared by the calls.
MatrixStartShared ==
    /\ op = "matrix" /\ pc = "start"
    /\ heap' = IF heap # <<>> /\ heap[1].kind = "list" THEN <<heap[1]>>
               ELSE <<ListValueBuilder(<<>>)>>
    /\ locals' = [locals EXCEPT !.targets = 1]
    /\ pc' = "loop"
    /\ UNCHANGED <<op, input, history, idx, result, error, renders>>

\* targets_builder is created by the call.
MatrixStart ==
    /\ op = "matrix" /\ pc = "start"
    /\ heap' = <<ListValueBuilder(<<>>)>>
    /\ locals' = [locals EXCEPT !.targets = 1]
    /\ pc' = "loop"
    /\ UNCHANGED <<op, input, history, idx, result, error, renders>>

MatrixEntry ==
    /\ op = "matrix" /\ pc = "loop" /\ idx < Len(input.v)
    /\ LET r == ConvertMatrixEntry(input.v[idx + 1][1], input.v[idx + 1][2])
       IN  IF Failed(r)
           THEN /\ error' = r.err /\ pc' = "raised"
                /\ UNCHANGED <<heap, idx>>
           ELSE /\ heap' = [heap EXCEPT ![locals.targets] = Append_(@, r.val)]
                /\ idx' = idx + 1
                /\ UNCHANGED <<error, pc>>
    /\ UNCHANGED <<op, input, history, locals, result, renders>>

\* A slip: the text is returned with a line break at its end.
MatrixOutputNewline ==
    /\ op = "matrix" /\ pc = "loop" /\ idx = Len(input.v)
    /\ result' = <<Returned("targets",
                            Some(Append(to_output(heap, Ref(locals.targets)).s, NL)))>>
    /\ renders' = Append(renders, locals.targets)
    /\ pc' = "done"
    /\ UNCHANGED <<op, input, history, idx, heap, locals, error>>

MatrixOutput ==
    /\ op = "matrix" /\ pc = "loop" /\ idx = Len(input.v)
    /\ result' = <<Returned("targets", to_output(heap, Ref(locals.targets)))>>
    /\ renders' = Append(renders, locals.targets)
    /\ pc' = "done"
    /\ UNCHANGED <<op, input, history, idx, heap, locals, error>>

----------------------------------------------------------------------------
(* Direct calls of the functions of starlark_conversions.py, as the unit    *)
(* tests make them: the returned value is kept and rendered by to_output.   *)

Convert(f, x) ==
    CASE f = "arg" -> convert_arg(x)
      [] f = "args" -> convert_args(x)
      [] f = "direct" -> convert_direct(x)
      [] f = "resultdb" -> convert_resultdb(x)
      [] f = "swarming" -> convert_swarming(x)
      [] f = "skylab" -> convert_skylab(x)

ConversionCall ==
    /\ op \in {"arg", "args", "direct", "resultdb", "swarming", "skylab"}
    /\ pc = "start"
    /\ LET r == Convert(op, input)
       IN  IF Failed(r)
           THEN /\ error' = r.err /\ pc' = "raised"
                /\ UNCHANGED <<result, renders, locals>>
           ELSE /\ result' = <<Returned("return", to_output(heap, r.val))>>
                /\ locals' = [locals EXCEPT !.ret = r.val]
                /\ renders' = Append(renders, 0)
                /\ pc' = "done"
                /\ UNCHANGED error
    /\ UNCHANGED <<op, input, history, idx, heap>>

----------------------------------------------------------------------------
(* values.py used directly: one CallValueBuilder or DictValueBuilder is     *)
(* created, takes the assignments of the input one by one and is rendered.  *)
(* The input is [kind, elide, sets], sets a sequence of <<key, value>>.     *)

BuilderNew ==
    /\ op = "builder" /\ pc = "start"
    /\ heap' = <<IF input.kind = "call"
                 THEN CallValueBuilder(S("f"), <<>>, input.elide)
                 ELSE DictValueBuilder(<<>>)>>
    /\ locals' = [locals EXCEPT !.targets = 1]
    /\ pc' = "loop"
    /\ UNCHANGED <<op, input, history, idx, result, error, renders>>

BuilderSet ==
    /\ op = "builder" /\ pc = "loop" /\ idx < Len(input.sets)
    /\ heap' = [heap EXCEPT ![1] = SetItem(@, input.sets[idx + 1][1],
                                             input.sets[idx + 1][2])]
    /\ idx' = idx + 1
    /\ UNCHANGED <<op, input, history, pc, locals, result, error, renders>>

BuilderOutput ==
    /\ op = "builder" /\ pc = "loop" /\ idx = Len(input.sets)
    /\ result' = <<Returned("return", to_output(heap, Ref(1)))>>
    /\ renders' = Append(renders, 1)
    /\ pc' = "done"
    /\ UNCHANGED <<op, input, history, idx, heap, locals, error>>

----------------------------------------------------------------------------
(* The inputs of the runs *)

MaxList == 2    \* elements of a list value
MaxKeys == 2    \* keys of the test definition under study, and of a sub-schema mapping
MaxTests == 3   \* entries of a suite

Str(x) == PyStr(S(x))
Magic(name) == PyStr(<<MagicPrefix, name>>)

\* "t1", "t2", ...; "m1", "m2", ...
Numbered(x, i) == PyStr(<<x>> \o IntStr(i))
NamesUpTo(x, n) == PyList([i \in 1..n |-> Numbered(x, i)])

\* The sequences of at most n options <<key, value>> with pairwise different
\* keys, as dicts.
DictsOf(opts, n) ==
    UNION {{PyDict([i \in 1..k |-> <<PyStr(d[i][1]), d[i][2]>>]) :
              d \in {e \in [1..k -> opts] :
                        \A i, j \in 1..k : i < j => e[i][1] # e[j][1]}} :
           k \in 0..n}

UnknownKey == S("unhandled_key")
QuotedKey == <<"k", DQ, "x">>

ArgStrings ==
    {Str("--x"), PyStr(<<"--a=", DQ, "b", DQ>>), PyStr(<<"x", MagicPrefix>>)}
    \cup {Magic(n) : n \in DOMAIN _MAGIC_ARG_MAPPING}
    \cup {Magic("Bogus"), PyStr(<<MagicPrefix>>),
          PyStr(<<MagicPrefix, "GPUParallelJobs", "x">>)}

ArgLists ==
    UNION {{PyList(l) :
              l \in [1..k -> {Str("--x"), Magic("GPUParallelJobs"),
                              Magic("Bogus"), PyStr(<<"a", DQ>>)}]} :
           k \in 0..MaxList}

Scalars ==
    {PyNone, PyBool(TRUE), PyBool(FALSE), PyInt(0), PyInt(7), PyInt(120),
     PyInt(-3), Str("foo"), PyStr(<<DQ, "foo", DQ>>), PyStr(<<"a", BS, "b">>),
     PyStr(<<>>), PyStr(<<"a", NL, "b">>), PyStr(<<"a", BS, DQ>>), PyInt(1205),
     Magic("Bogus"), PyOther(S("set()")), PyOther(S("1.5"))}

FlatLists == UNION {{PyList(l) : l \in [1..k -> {PyInt(7), Str("foo"), PyNone}]} :
                    k \in 0..MaxList}

DirectValues ==
    Scalars \cup FlatLists
    \cup {PyList(<<PyList(<<Str("foo")>>), PyInt(7)>>),
          PyList(<<Str("foo"), PyOther(S("set()"))>>),
          PyList(<<PyList(<<PyOther(S("1.5"))>>)>>),
          PyDict(<<>>),
          PyDict(<<KV("foo", Str("bar"))>>),
          PyDict(<<KV("pool", Str("default")), KV("os", PyList(<<Str("Mac")>>))>>),
          PyDict(<<KV("a", PyDict(<<KV("b", PyInt(7))>>))>>),
          PyDict(<<KV("a", PyOther(S("set()"))), KV("b", PyInt(7))>>),
          PyDict(<<<<PyInt(7), PyBool(TRUE)>>>>),
          PyDict(<<KV("a", PyInt(7)), <<PyOther(S("1.5")), PyOther(S("set()"))>>>>),
          PyDict(<<KV("a", PyList(<<PyDict(<<KV("b", PyNone)>>), PyList(<<>>)>>)),
                   <<PyStr(<<"q", DQ>>), PyDict(<<>>)>>>>)}

SubSchemaValues ==
    {PyInt(2), PyBool(TRUE), Str("account"),
     PyDict(<<KV("pool", Str("default"))>>)}

SubSchemaKeys(f) ==
    {UnknownKey, QuotedKey, S("expiration_sec")}
    \cup {S(k) : k \in (CASE f = "resultdb" -> DOMAIN ResultdbParams
                          [] f = "swarming" -> DOMAIN SwarmingParams
                          [] f = "skylab" -> DOMAIN SkylabParams)}

SubSchemaDicts(f) ==
    DictsOf({<<k, PyInt(2)>> : k \in SubSchemaKeys(f)}, MaxKeys)
    \cup {PyDict(<<<<PyStr(k), v>>>>) :
            k \in SubSchemaKeys(f), v \in SubSchemaValues \cup {PyOther(S("set()"))}}

\* Key/value options of the test definition under study.
TestOptions ==
    {<<S("script"), Str("t.py")>>,
     <<S("ci_only"), PyBool(TRUE)>>,
     <<S("args"), PyList(<<Magic("GPUParallelJobs"), Str("--x")>>)>>,
     <<UnknownKey, Str("value")>>}
    \cup {<<S("mixins"), NamesUpTo("m", n)>> : n \in 0..MaxList}
    \cup {<<S("remove_mixins"), NamesUpTo("r", n)>> : n \in 0..MaxList}

\* The definition of the other tests of such a suite.
OtherTest ==
    PyDict(<<KV("resultdb", PyDict(<<KV("enable", PyBool(FALSE))>>)),
             KV("chromeos_swarming", PyDict(<<KV("shards", PyInt(2)),
                                              KV("expiration", PyInt(120))>>)),
             KV("skylab", PyDict(<<KV("shards", PyInt(4))>>))>>)

\* The suite of k tests whose test number at has definition d.
SuiteAround(k, at, d) ==
    PyDict([i \in 1..k |-> <<Numbered("t", i), IF i = at THEN d ELSE OtherTest>>])

\* The suite of the entries e, named x1, x2, ...
SuiteOf(x, e) == PyDict([i \in 1..Len(e) |-> <<Numbered(x, i), e[i]>>])

\* Definitions that convert, and definitions that raise in one way each.
PlainTests ==
    {PyDict(<<>>),
     PyDict(<<KV("test", Str("t_test"))>>),
     PyDict(<<<<PyStr(UnknownKey), Str("value")>>>>),
     PyDict(<<<<PyStr(QuotedKey), Str("value")>>>>),
     PyDict(<<KV("linux_args", PyList(<<Magic("Bogus")>>))>>),
     PyDict(<<KV("android_swarming", PyDict(<<KV("bogus", PyInt(1))>>))>>),
     PyDict(<<KV("chromeos_swarming",
                 PyDict(<<KV("shards", PyOther(S("set()"))),
                          KV("bogus", PyInt(1))>>))>>)}

MatrixConfigs ==
    {PyDict(<<>>),
     PyDict(<<KV("mixins", PyList(<<Str("m1")>>))>>),
     PyDict(<<KV("mixins", PyList(<<Str("m1")>>)),
              KV("variants", PyList(<<Str("v1")>>))>>),
     PyDict(<<KV("variants", PyList(<<Str("v1")>>)),
              KV("mixins", PyList(<<>>))>>),
     PyDict(<<<<PyStr(UnknownKey), Str("value")>>>>),
     PyDict(<<KV("mixins", PyList(<<Str("m1")>>)),
              <<PyStr(QuotedKey), Str("value")>>>>)}

CompoundSuites ==
    {NamesUpTo("s", n) : n \in 0..MaxList}
    \cup {PyList(<<Magic("Bogus"), PyStr(<<"s", DQ>>)>>),
          PyList(<<Str("s1"), PyOther(S("set()"))>>)}

\* Values assigned to the keys of a builder: atoms, a list and a call.
BuilderValues ==
    {Atom(S("1")), Atom(<<DQ, "a", DQ>>),
     Tree(ListValueBuilder(<<Atom(S("1"))>>)),
     Tree(CallValueBuilder(S("g"), <<Item(S("x"), Atom(S("1")))>>, NoElide))}

BuilderInputs ==
    UNION {{[kind |-> kind, elide |-> elide, sets |-> sets] :
              kind \in {"call", "dict"}, elide \in {NoElide, S("p")},
              sets \in [1..k -> {S("p"), S("q")} \X BuilderValues]} :
           k \in 0..MaxKeys}

UnitInputs ==
    {<<"compound", x>> : x \in CompoundSuites}
    \cup {<<"arg", x>> : x \in ArgStrings}
    \cup {<<"args", x>> : x \in ArgLists}
    \cup {<<"direct", x>> : x \in DirectValues}
    \cup UNION {{<<f, x>> : x \in SubSchemaDicts(f)} :
                f \in {"resultdb", "swarming", "skylab"}}

----------------------------------------------------------------------------
(* The runs: one call of one entry point on one input *)

InitInput ==
    \/ /\ op = "basic"
       /\ \E k \in 1..(MaxTests - 1) : \E at \in 1..k :
            \E d \in DictsOf(TestOptions, MaxKeys) : input = SuiteAround(k, at, d)
    \/ /\ op = "basic"
       /\ \E k \in 0..MaxTests : \E e \in [1..k -> PlainTests] :
            input = SuiteOf("t", e)
    \/ /\ op = "matrix"
       /\ \E k \in 0..MaxTests : \E e \in [1..k -> MatrixConfigs] :
            input = SuiteOf("s", e)
    \/ \E in \in UnitInputs : op = in[1] /\ input = in[2]
    \/ op = "builder" /\ input \in {b \in BuilderInputs : b.kind = "call" \/ b.elide = NoElide}

Init ==
    /\ InitInput
    /\ pc = "start"
    /\ idx = 0
    /\ heap = <<>>
    /\ locals = NoLocals
    /\ result = <<>>
    /\ error = NoErr
    /\ renders = <<>>
    /\ history = <<>>

Next ==
    \/ BasicStart
    \/ BasicTest
    \/ BasicOutput
    \/ CompoundCall
    \/ MatrixStart
    \/ MatrixEntry
    \/ MatrixOutput
    \/ ConversionCall
    \/ BuilderNew
    \/ BuilderSet
    \/ BuilderOutput

Spec == Init /\ [][Next]_vars

----------------------------------------------------------------------------
(* The three suite conversions as functions of their input: the whole call, *)
(* from builders of its own to the mapping it returns or the exception.     *)

Outcome(res, err) == [result |-> res, error |-> err]

RECURSIVE BasicTests(_, _, _)
\* for test_name, test in suite.items(), from entry i on: the first exception
\* ends the loop.
BasicTests(st, suite, i) ==
    IF i > Len(suite.v) \/ st.err.kind # "none" THEN st
    ELSE BasicTests(ConvertTest(st.h, 1, 2, suite.v[i][1], suite.v[i][2]),
                    suite, i + 1)

\* convert_basic_suite(suite)
convert_basic_suite(suite) ==
    LET st == BasicTests(TestState(<<ListValueBuilder(<<>>), DictValueBuilder(<<>>)>>),
                         suite, 1)
    IN  IF st.err.kind # "none" THEN Outcome(<<>>, st.err)
        ELSE Outcome(<<Returned("targets", to_output(st.h, Ref(1))),
                       Returned("per_test_modifications", to_output(st.h, Ref(2)))>>,
                     NoErr)

\* convert_compound_suite(suite)
convert_compound_suite(suite) ==
    LET r == convert_direct(suite)
    IN  IF Failed(r) THEN Outcome(<<>>, r.err)
        ELSE Outcome(<<Returned("targets", to_output(<<>>, r.val))>>, NoErr)

RECURSIVE MatrixEntries(_, _, _)
\* for suite_name, matrix_config in suite.items(), from entry i on, on
\* targets_builder: the builder or the exception.
MatrixEntries(targets, suite, i) ==
    IF i > Len(suite.v) THEN Ok(Tree(targets))
    ELSE LET r == ConvertMatrixEntry(suite.v[i][1], suite.v[i][2])
         IN  IF Failed(r) THEN r
             ELSE MatrixEntries(Append_(targets, r.val), suite, i + 1)

\* convert_matrix_compound_suite(suite)
convert_matrix_compound_suite(suite) ==
    LET r == MatrixEntries(ListValueBuilder(<<>>), suite, 1)
    IN  IF Failed(r) THEN Outcome(<<>>, r.err)
        ELSE Outcome(<<Returned("targets", to_output(<<>>, r.val))>>, NoErr)

\* The suite conversion named o, on input x.
SuiteConversion(o, x) ==
    CASE o = "basic" -> convert_basic_suite(x)
      [] o = "compound" -> convert_compound_suite(x)
      [] o = "matrix" -> convert_matrix_compound_suite(x)

----------------------------------------------------------------------------
(* Calls made one after another by one caller, as the unit tests make them, *)
(* and test definitions that differ in one key.                             *)

MaxCalls == 2    \* calls one caller makes in a row
MaxFields == 2   \* keys of a test definition
MaxSets == 3     \* assignments to the keys of one builder

Call(o, x) == <<o, x>>

\* Calls of the three entry points that return, and calls that raise at the
\* first entry or after an entry was converted.
CallPool ==
    {Call("basic", SuiteAround(2, 1, PyDict(<<KV("mixins", NamesUpTo("m", 1)),
                                               KV("ci_only", PyBool(TRUE))>>))),
     Call("basic", SuiteOf("t", <<PyDict(<<>>)>>)),
     Call("basic", PyDict(<<>>)),
     Call("basic", SuiteOf("t", <<OtherTest,
                                  PyDict(<<<<PyStr(UnknownKey), Str("value")>>>>)>>)),
     Call("compound", NamesUpTo("s", 2)),
     Call("compound", PyList(<<Str("s1"), PyOther(S("set()"))>>)),
     Call("matrix", SuiteOf("s", <<PyDict(<<>>),
                                   PyDict(<<KV("mixins", PyList(<<Str("m1")>>))>>)>>)),
     Call("matrix", SuiteOf("s", <<PyDict(<<KV("variants", PyList(<<Str("v1")>>))>>),
                                   PyDict(<<<<PyStr(UnknownKey), Str("value")>>>>)>>))}

\* The caller keeps the outcome of the call that ended and makes another
\* call: a new frame, while the builders of the calls before it stay where
\* they are.
CallAgain ==
    /\ pc \in {"done", "raised"}
    /\ Call(op, input) \in CallPool
    /\ Len(history) + 1 < MaxCalls
    /\ history' = Append(history, [op |-> op, input |-> input,
                                   result |-> result, error |-> error])
    /\ \E c \in CallPool : op' = c[1] /\ input' = c[2]
    /\ pc' = "start"
    /\ idx' = 0
    /\ locals' = NoLocals
    /\ result' = <<>>
    /\ error' = NoErr
    /\ renders' = <<>>
    /\ UNCHANGED heap

\* Values for the ignored keys: a string, a value no conversion accepts, a
\* magic string outside the table, mappings with keys no schema accepts.
IgnoredOptions ==
    {<<S("results_handler"), PyOther(S("set()"))>>,
     <<S("script"), Str("t.py")>>,
     <<S("telemetry_test_name"), Magic("Bogus")>>,
     <<S("test"), PyDict(<<<<PyStr(UnknownKey), PyOther(S("1.5"))>>>>)>>,
     <<S("test_common"), PyList(<<PyOther(S("set()"))>>)>>}

MagicArgs == PyList(<<Magic("GPUParallelJobs"), Str("--x")>>)

\* One option for each key that gives the anonymous mixin a field, and one
\* whose argument list holds a magic string outside the table.
MixinFieldOptions ==
    {<<S("ci_only"), PyBool(TRUE)>>,
     <<S("experiment_percentage"), PyInt(50)>>,
     <<S("use_isolated_scripts_api"), Magic("GPUParallelJobs")>>,
     <<S("lacros_args"), PyList(<<Str("--x"), Magic("Bogus")>>)>>}
    \cup {<<S(k), MagicArgs>> : k \in ArgsKeys}

SubSchemaOptions ==
    {<<S("swarming"), PyDict(<<KV("shards", PyInt(2))>>)>>,
     <<S("android_swarming"), PyDict(<<KV("service_account", Magic("Bogus"))>>)>>,
     <<S("chromeos_swarming"),
       PyDict(<<KV("expiration", PyInt(120)),
                KV("dimensions", PyDict(<<KV("pool", Magic("GPUParallelJobs"))>>))>>)>>,
     <<S("resultdb"), PyDict(<<KV("enable", PyBool(FALSE))>>)>>,
     <<S("skylab"), PyDict(<<KV("timeout_sec", Magic("Bogus"))>>)>>,
     <<S("swarming"), PyDict(<<>>)>>}

MixinsOptions ==
    {<<S("mixins"), PyList(<<Magic("GPUParallelJobs"), Str("m1")>>)>>,
     <<S("mixins"), PyList(<<>>)>>,
     <<S("remove_mixins"), PyList(<<Magic("Bogus")>>)>>}

FieldOptions ==
    IgnoredOptions \cup MixinFieldOptions \cup SubSchemaOptions \cup MixinsOptions
    \cup {<<UnknownKey, Str("value")>>}

\* The options that stand beside the key under study.
Companions ==
    {<<S("script"), Str("t.py")>>,
     <<S("ci_only"), PyBool(TRUE)>>,
     <<S("args"), MagicArgs>>,
     <<S("swarming"), PyDict(<<KV("shards", PyInt(2))>>)>>,
     <<S("mixins"), PyList(<<Magic("GPUParallelJobs"), Str("m1")>>)>>,
     <<UnknownKey, Str("value")>>}

\* The test definitions of at most MaxFields keys, pairwise different, of
\* which at most one is not a companion.
FieldDefs ==
    UNION {{PyDict([i \in 1..k |-> <<PyStr(d[i][1]), d[i][2]>>]) :
              d \in {e \in [1..k -> FieldOptions] :
                        /\ \A i, j \in 1..k : i < j => e[i][1] # e[j][1]
                        /\ Cardinality({i \in 1..k : e[i] \notin Companions}) <= 1}} :
           k \in 0..MaxFields}

\* Suites and lists whose names and values are magic strings.
MagicElsewhere ==
    {Call("basic", PyDict(<<<<Magic("GPUParallelJobs"), OtherTest>>,
                            <<Magic("Bogus"), PyDict(<<>>)>>>>)),
     Call("compound", PyList(<<Magic("GPUParallelJobs"), Magic("Bogus")>>)),
     Call("matrix",
          PyDict(<<<<Magic("GPUParallelJobs"), PyDict(<<>>)>>,
                   <<Magic("Bogus"),
                     PyDict(<<KV("mixins", PyList(<<Magic("GPUParallelJobs")>>)),
                              KV("variants", PyList(<<Magic("Bogus")>>))>>)>>>>)),
     Call("direct", Magic("GPUParallelJobs")),
     Call("arg", Magic("GPUParallelJobs")),
     Call("args", PyList(<<Magic("GPUParallelJobs"), Magic("Bogus")>>)),
     Call("swarming", PyDict(<<KV("shards", Magic("GPUParallelJobs"))>>)),
     Call("resultdb", PyDict(<<KV("enable", Magic("Bogus"))>>)),
     Call("skylab", PyDict(<<KV("shards", PyInt(4))>>))}

\* Sequences of assignments to the keys p and q of one builder.
AssignedValues ==
    {Atom(S("1")),
     Tree(CallValueBuilder(S("g"), <<Item(S("x"), Atom(<<DQ, "a", DQ>>))>>, NoElide))}

AssignmentInputs ==
    UNION {{[kind |-> ke[1], elide |-> ke[2], sets |-> sets] :
              ke \in {<<"dict", NoElide>>, <<"call", NoElide>>, <<"call", S("p")>>},
              sets \in [1..k -> {S("p"), S("q")} \X AssignedValues]} :
           k \in 0..MaxSets}

InitCalls ==
    /\ \/ \E c \in CallPool \cup MagicElsewhere : op = c[1] /\ input = c[2]
       \/ op = "basic" /\ \E d \in FieldDefs : input = SuiteOf("t", <<d>>)
       \/ op = "builder" /\ input \in AssignmentInputs
    /\ pc = "start"
    /\ idx = 0
    /\ heap = <<>>
    /\ locals = NoLocals
    /\ result = <<>>
    /\ error = NoErr
    /\ renders = <<>>
    /\ history = <<>>

NextCalls == Next \/ CallAgain

SpecCalls == InitCalls /\ [][NextCalls]_vars

----------------------------------------------------------------------------
(* What the claims speak about *)

Done(o) == op = o /\ pc = "done"
Raised(o) == op = o /\ pc = "raised"

\* The tests of the basic suite of this run, their definitions and keys.
Tests == 1..Len(input.v)
TestDef(i) == input.v[i][2].v
HasKey(i, k) == \E j \in 1..Len(TestDef(i)) : TestDef(i)[j][1].v = S(k)
ValueOf(i, k) ==
    TestDef(i)[CHOOSE j \in 1..Len(TestDef(i)) : TestDef(i)[j][1].v = S(k)][2]

\* The builders of test i once the suite is converted: its entry in
\* per_test_modifications_builder is modifications_builder, created right
\* after anonymous_mixin_builder.
ModsId(i) == heap[locals.per_test].items[i].v.id
AnonId(i) == ModsId(i) - 1
Mods(i) == heap[ModsId(i)]
ParamNames(b) == [j \in 1..Len(b.items) |-> b.items[j].k]
Param(b, k) == b.items[CHOOSE j \in 1..Len(b.items) : b.items[j].k = k].v

\* The text of a string literal: the string between double quotes, its own
\* double quotes escaped.
Quoted(s) ==
    <<DQ>> \o Flatten([i \in 1..Len(s) |-> IF s[i] = DQ THEN <<BS, DQ>> ELSE <<s[i]>>])
    \o <<DQ>>

\* Lines(texts, n): one line per text, indented by n spaces, each followed by
\* a comma.
Lines(texts, n) ==
    Flatten([i \in 1..Len(texts) |-> Indent(n) \o texts[i] \o <<",", NL>>])

\* The text of a list of the given element texts, opened on a line indented
\* by n spaces.
ListText(texts, n) ==
    IF texts = <<>> THEN <<"[", "]">>
    ELSE <<"[", NL>> \o Lines(texts, n + 2) \o Indent(n) \o <<"]">>

\* The text of the call name(k1 = t1, ...), opened on a line indented by n.
CallText(name, keys, texts, n) ==
    name \o <<"(", NL>>
    \o Lines([i \in 1..Len(texts) |-> keys[i] \o <<SP, "=", SP>> \o texts[i]], n + 2)
    \o Indent(n) \o <<")">>

\* The subsequence of the indices of s that satisfy keep, in order.
RECURSIVE Keep(_, _)
Keep(s, keep) ==
    IF s = <<>> THEN <<>>
    ELSE (IF keep[1] THEN <<Head(s)>> ELSE <<>>)
         \o Keep(Tail(s), Tail(keep))

\* text has pat at position j.
OccursAt(text, pat, j) ==
    /\ j + Len(pat) - 1 <= Len(text)
    /\ \A l \in 1..Len(pat) : text[j + l - 1] = pat[l]
Occurrences(text, pat) == {j \in 1..Len(text) : OccursAt(text, pat, j)}

----------------------------------------------------------------------------
(* Claims C1 to C5: elision and the mixins of a test *)

\* The text of the entry of test i in per_test_modifications (the entries of
\* a top-level dict stand on lines indented by 2).
EntryText(i) == RenderValue(heap, Ref(ModsId(i)), 2)

\* The elision law for the call builder b of heap h, with elision parameter
\* P, rendered as out on a line indented by n: alone with P, it renders as
\* the value of P; with two parameters or more, as the wrapper call with
\* every parameter (all) or with the parameters that render to text.
ElisionLaw(h, b, P, out, n, all) ==
    LET outs == [j \in 1..Len(b.items) |-> RenderValue(h, b.items[j].v, n + 2)]
        shown == [j \in 1..Len(b.items) |-> ~outs[j].none]
        texts == [j \in 1..Len(b.items) |-> outs[j].s]
    IN  /\ ParamNames(b) = <<P>> => out = RenderValue(h, b.items[1].v, n)
        /\ Len(b.items) >= 2 =>
             IF all
             THEN /\ \A j \in 1..Len(b.items) : shown[j]
                  /\ out = Some(CallText(b.name, ParamNames(b), texts, n))
             ELSE out = IF \A j \in 1..Len(b.items) : ~shown[j] THEN None
                        ELSE Some(CallText(b.name, Keep(ParamNames(b), shown),
                                           Keep(texts, shown), n))

ElisionLawHolds(all) ==
    /\ Done("builder") /\ input.kind = "call" /\ input.elide # NoElide =>
         ElisionLaw(heap, heap[1], input.elide, result[1].v, 0, all)
    /\ Done("basic") =>
         \A i \in Tests :
            ElisionLaw(heap, Mods(i), S("mixins"), EntryText(i), 2, all)

Wrapped(i) ==
    /\ ~EntryText(i).none
    /\ OccursAt(EntryText(i).s, <<"targets.per_test_modification", "(">>, 1)

\* The texts of the named mixins of a list of names, as string literals.
NameTexts(names) == [j \in 1..Len(names.v) |-> Quoted(names.v[j].v)]

\* The text of the anonymous mixin of test i, on a line indented by n.
AnonText(i, n) == RenderValue(heap, Ref(AnonId(i)), n)

\* The text of the explicit mixin list of test i, opened on a line indented
\* by n: the anonymous mixin if it renders, and the named mixins.
MixinsListText(i, n) ==
    ListText((IF AnonText(i, n + 2).none THEN <<>> ELSE <<AnonText(i, n + 2).s>>)
             \o NameTexts(ValueOf(i, "mixins")), n)

\* C2: the entry of a test is wrapped in targets.per_test_modification(...)
\* if and only if the test definition has the key remove_mixins; without
\* it the entry is the mixins value alone, the explicit mixin list if the
\* definition has the key mixins and the anonymous targets.mixin call
\* otherwise, and no parameter name `mixins =` appears.
C2_WrapperIffRemoveMixins ==
    Done("basic") =>
        \A i \in Tests :
            /\ Wrapped(i) <=> HasKey(i, "remove_mixins")
            /\ ~HasKey(i, "remove_mixins") =>
                 /\ EntryText(i) = IF HasKey(i, "mixins")
                                   THEN Some(MixinsListText(i, 2))
                                   ELSE AnonText(i, 2)
                 /\ Occurrences(EntryText(i).s, <<"mixins", SP, "=">>) = {}

\* One suite with a wrapped entry and an entry that is a bare targets.mixin
\* call.
C2_Witness ==
    /\ Done("basic")
    /\ \E i, j \in Tests :
        /\ Wrapped(i)
        /\ ~HasKey(j, "remove_mixins") /\ ~HasKey(j, "mixins")
        /\ OccursAt(EntryText(j).s, <<"targets.mixin", "(">>, 1)

\* C3: for a test definition with both mixins and remove_mixins, in either
\* key order, the targets.per_test_modification call lists the parameter
\* remove_mixins first and the parameter mixins second.
C3_RemoveMixinsFirst ==
    Done("basic") =>
        \A i \in Tests :
            HasKey(i, "mixins") /\ HasKey(i, "remove_mixins") =>
                LET text == EntryText(i).s
                    rm == Occurrences(text, <<NL, SP, SP, SP, SP, "remove_mixins", SP, "=">>)
                    mx == Occurrences(text, <<NL, SP, SP, SP, SP, "mixins", SP, "=">>)
                IN  /\ Wrapped(i)
                    /\ Cardinality(rm) = 1 /\ Cardinality(mx) = 1
                    /\ \A a \in rm, b \in mx : a < b

\* The definition gives mixins before remove_mixins.
C3_Witness ==
    /\ Done("basic")
    /\ \E i \in Tests :
        /\ Len(TestDef(i)) = 2
        /\ TestDef(i)[1][1].v = S("mixins")
        /\ TestDef(i)[2][1].v = S("remove_mixins")
        /\ Len(TestDef(i)[1][2].v) > 0

\* C4: the list assigned to the parameter remove_mixins starts with the guard
\* sentinel literal, followed by the literal of each listed name in input
\* order, for every length of the input list; for the empty list it is the
\* sentinel alone.
C4_SentinelFirst ==
    Done("basic") =>
        \A i \in Tests :
            HasKey(i, "remove_mixins") =>
                LET names == ValueOf(i, "remove_mixins")
                    list == Param(Mods(i), S("remove_mixins"))
                    texts ==
                        <<<<DQ, "DO NOT SUBMIT ensure all remove mixins values are present",
                            DQ>>>> \o NameTexts(names)
                IN  /\ ParamNames(Mods(i))[1] = S("remove_mixins")
                    /\ list.t = "ref"
                    /\ heap[list.id] = ListValueBuilder(
                            [j \in 1..Len(texts) |-> Atom(texts[j])])
                    /\ RenderValue(heap, list, 4) = Some(ListText(texts, 4))

\* A test with `remove_mixins: []` was converted.
C4_Witness ==
    /\ Done("basic")
    /\ \E i \in Tests :
        /\ HasKey(i, "remove_mixins")
        /\ Len(ValueOf(i, "remove_mixins").v) = 0

\* The value of the mixins parameter of test i, and where it is rendered:
\* in the wrapper call, or in place of the entry.
MixinsValue(i) == Param(Mods(i), S("mixins"))
MixinsIndent(i) == IF HasKey(i, "remove_mixins") THEN 4 ELSE 2

\* C5 as stated: with a mixins key, the mixins value rendered for the test is
\* a list whose first element is the anonymous targets.mixin call, followed
\* by the literal of each named mixin in input order, also when the
\* anonymous mixin received no fields.
C5_AsStated ==
    Done("basic") =>
        \A i \in Tests :
            HasKey(i, "mixins") =>
                LET n == MixinsIndent(i)
                    out == RenderValue(heap, MixinsValue(i), n)
                IN  /\ ~out.none
                    /\ OccursAt(out.s, <<"[", NL>> \o Indent(n + 2)
                                       \o <<"targets.mixin", "(">>, 1)

\* C5, amended: with a mixins key, the mixins value of the test is a list
\* builder whose first element is the anonymous targets.mixin builder,
\* followed by the literal of each named mixin in input order; its text
\* lists the anonymous mixin first when that mixin has a field that renders,
\* and leaves it out when it received none.
C5_MixinsList ==
    Done("basic") =>
        \A i \in Tests :
            HasKey(i, "mixins") =>
                LET n == MixinsIndent(i)
                    names == NameTexts(ValueOf(i, "mixins"))
                    anon == heap[AnonId(i)]
                IN  /\ MixinsValue(i).t = "ref"
                    /\ heap[MixinsValue(i).id] =
                        ListValueBuilder(<<Ref(AnonId(i))>>
                            \o [j \in 1..Len(names) |-> Atom(names[j])])
                    /\ anon.kind = "call" /\ anon.name = S("targets.mixin")
                    /\ RenderValue(heap, MixinsValue(i), n) = Some(MixinsListText(i, n))
                    /\ Len(anon.items) = 0 => AnonText(i, n + 2).none
                    /\ Len(anon.items) > 0 =>
                        OccursAt(MixinsListText(i, n),
                                 <<"[", NL>> \o Indent(n + 2)
                                 \o <<"targets.mixin", "(">>, 1)

\* A test with named mixins whose anonymous mixin received no fields.
C5_Witness ==
    /\ Done("basic")
    /\ \E i \in Tests :
        /\ HasKey(i, "mixins")
        /\ Len(ValueOf(i, "mixins").v) > 0
        /\ Len(heap[AnonId(i)].items) = 0

----------------------------------------------------------------------------
(* Claims C6 to C8: unrecognized keys *)

RECURSIVE HasOther(_)
\* Whether the python value holds, at any depth, a value that is not None,
\* a bool, an int, a str, a list or a dict.
HasOther(v) ==
    CASE v.t = "other" -> TRUE
      [] v.t = "list" -> \E i \in 1..Len(v.v) : HasOther(v.v[i])
      [] v.t = "dict" ->
            \E i \in 1..Len(v.v) : HasOther(v.v[i][1]) \/ HasOther(v.v[i][2])
      [] OTHER -> FALSE

\* The magic substitutions and their constants.
MagicTable ==
    {<<"AndroidDesktopTelemetryRemote", "ANDROID_DESKTOP_TELEMETRY_REMOTE">>,
     <<"ChromeOSTelemetryRemote", "CROS_TELEMETRY_REMOTE">>,
     <<"ChromeOSGtestFilterFile", "CROS_GTEST_FILTER_FILE">>,
     <<"GPUExpectedVendorId", "GPU_EXPECTED_VENDOR_ID">>,
     <<"GPUExpectedDeviceId", "GPU_EXPECTED_DEVICE_ID">>,
     <<"GPUParallelJobs", "GPU_PARALLEL_JOBS">>,
     <<"GPUTelemetryNoRootForUnrootedDevices",
       "GPU_TELEMETRY_NO_ROOT_FOR_UNROOTED_DEVICES">>,
     <<"GPUWebGLRuntimeFile", "GPU_WEBGL_RUNTIME_FILE">>}

HasMagicPrefix(s) == s # <<>> /\ Head(s) = "$$MAGIC_SUBSTITUTION_"
InTable(s) == \E e \in MagicTable : s = <<"$$MAGIC_SUBSTITUTION_", e[1]>>
UnknownMagic(s) == HasMagicPrefix(s) /\ ~InTable(s)

\* The closed key sets of the schemas.
AcceptedKeys(schema) ==
    CASE schema = "resultdb" -> {"enable"}
      [] schema = "swarming" ->
            {"dimensions", "idempotent", "service_account", "shards",
             "expiration", "hard_timeout", "io_timeout"}
      [] schema = "skylab" -> {"shards", "timeout_sec"}
      [] schema = "matrix config" -> {"mixins", "variants"}
      [] schema = "basic suite test definition" ->
            {"results_handler", "script", "telemetry_test_name", "test",
             "test_common", "ci_only", "experiment_percentage",
             "use_isolated_scripts_api", "android_args", "chromeos_args",
             "desktop_args", "args", "lacros_args", "linux_args", "resultdb",
             "android_swarming", "chromeos_swarming", "swarming", "skylab",
             "mixins", "remove_mixins"}

Accepts(schema, key) == \E k \in AcceptedKeys(schema) : key = <<k>>

\* The schema of the mapping under a key of a test definition, "" if the
\* value is no such mapping.
SubSchema(key) ==
    CASE key = <<"resultdb">> -> "resultdb"
      [] key \in {<<"swarming">>, <<"android_swarming">>, <<"chromeos_swarming">>} ->
            "swarming"
      [] key = <<"skylab">> -> "skylab"
      [] OTHER -> ""

TopSchema == IF op = "basic" THEN "basic suite test definition" ELSE "matrix config"

\* A place of the input of a suite conversion: entry i, its key number j
\* (0: the name of the entry), and the key or element number l under that
\* key (0: the key itself); rank orders the places as the conversion meets
\* them.
Place(i, j, l, schema, key) == [i |-> i, j |-> j, l |-> l, schema |-> schema, key |-> key]
Rank(p) == (p.i * 100 + p.j) * 100 + p.l
Entries == IF op \in {"basic", "matrix"} THEN 1..Len(input.v) ELSE {}
KeysOf(i) == 1..Len(input.v[i][2].v)
KeyAt(i, j) == input.v[i][2].v[j][1].v
ValueAt(i, j) == input.v[i][2].v[j][2]

\* The places of the unrecognized keys of the input: keys of an entry
\* outside the schema of the entry, and keys of a resultdb, swarming or
\* skylab mapping of a test outside the schema of that mapping.
Unrecognized ==
    {Place(p[1], p[2], 0, TopSchema, KeyAt(p[1], p[2])) :
        p \in {q \in UNION {{<<i, j>> : j \in KeysOf(i)} : i \in Entries} :
                 ~Accepts(TopSchema, KeyAt(q[1], q[2]))}}
    \cup
    (IF op # "basic" THEN {}
     ELSE {Place(p[1], p[2], p[3], SubSchema(KeyAt(p[1], p[2])),
                 ValueAt(p[1], p[2]).v[p[3]][1].v) :
             p \in {q \in UNION {UNION {{<<i, j, l>> :
                                           l \in 1..(IF SubSchema(KeyAt(i, j)) = "" THEN 0
                                                     ELSE Len(ValueAt(i, j).v))} :
                                        j \in KeysOf(i)} : i \in Entries} :
                      ~Accepts(SubSchema(KeyAt(q[1], q[2])),
                               ValueAt(q[1], q[2]).v[q[3]][1].v)}})

\* The places of the other things a conversion fails on: a value of an
\* unsupported type, and in an argument list an unknown magic string.
ArgsKeyNames ==
    {<<"android_args">>, <<"chromeos_args">>, <<"desktop_args">>, <<"args">>,
     <<"lacros_args">>, <<"linux_args">>}
IgnoredKeyNames ==
    {<<"results_handler">>, <<"script">>, <<"telemetry_test_name">>, <<"test">>,
     <<"test_common">>}

OtherFailures ==
    {Place(i, 0, 0, "", <<>>) : i \in {e \in Entries : HasOther(input.v[e][1])}}
    \cup
    {Place(p[1], p[2], p[3], "", <<>>) :
        p \in {q \in UNION {UNION {{<<i, j, l>> :
                                      l \in 1..(IF ValueAt(i, j).t \in {"list", "dict"}
                                                THEN Len(ValueAt(i, j).v) ELSE 1)} :
                                   j \in KeysOf(i)} : i \in Entries} :
                 LET key == KeyAt(q[1], q[2])
                     value == ValueAt(q[1], q[2])
                 IN  /\ Accepts(TopSchema, key)
                     /\ key \notin IgnoredKeyNames
                     /\ IF op = "basic" /\ SubSchema(key) # ""
                        THEN /\ Accepts(SubSchema(key), value.v[q[3]][1].v)
                             /\ HasOther(value.v[q[3]][2])
                        ELSE IF op = "basic" /\ key \in ArgsKeyNames
                        THEN UnknownMagic(value.v[q[3]].v)
                        ELSE IF value.t = "list" THEN HasOther(value.v[q[3]])
                        ELSE HasOther(value)}}

First(places) == CHOOSE p \in places : \A q \in places : Rank(p) <= Rank(q)

\* The first unrecognized key comes before every other failure.
KeyFailsFirst ==
    /\ Unrecognized # {}
    /\ \A q \in OtherFailures : Rank(First(Unrecognized)) < Rank(q)

IsKeyError(e) ==
    e.kind = "Exception" /\ OccursAt(e.msg, <<"unhandled key in ">>, 1)

\* The message ends with the key between double quotes.
NamesKey(e, key) ==
    OccursAt(e.msg, <<DQ>> \o key \o <<DQ>>, Len(e.msg) - Len(key) - 1)

KeyErrorOf(schema, key) ==
    [kind |-> "Exception",
     msg |-> <<"unhandled key in ", schema, ": ", DQ>> \o key \o <<DQ>>]

\* C7: convert_resultdb, convert_swarming and convert_skylab accept exactly
\* their closed key sets and fail for any other key K with
\* 'unhandled key in <schema>: "K"', <schema> being resultdb, swarming or
\* skylab; the schema is named swarming also for the mapping under
\* android_swarming or chromeos_swarming of a basic suite.
C7_SubSchemaKeys ==
    /\ op \in {"resultdb", "swarming", "skylab"} /\ pc \in {"done", "raised"} =>
         LET kvs == input.v
             bad == {l \in 1..Len(kvs) : ~Accepts(op, kvs[l][1].v)}
             other == {l \in 1..Len(kvs) :
                          Accepts(op, kvs[l][1].v) /\ HasOther(kvs[l][2])}
             first == CHOOSE l \in bad : \A m \in bad : l <= m
         IN  /\ bad = {} /\ other = {} => pc = "done"
             /\ bad = {} => ~IsKeyError(error)
             /\ bad # {} => pc = "raised"
             /\ bad # {} /\ (\A m \in other : first < m) =>
                   error = KeyErrorOf(op, kvs[first][1].v)
    /\ Raised("basic") /\ KeyFailsFirst /\ First(Unrecognized).l > 0 =>
         error = KeyErrorOf(SubSchema(KeyAt(First(Unrecognized).i,
                                            First(Unrecognized).j)),
                            First(Unrecognized).key)

\* The mapping under android_swarming has an unknown key: the error names
\* the schema swarming.
C7_Witness ==
    /\ Raised("basic")
    /\ error = KeyErrorOf("swarming", <<"bogus">>)
    /\ KeyAt(idx + 1, 1) = <<"android_swarming">>

\* C8: convert_basic_suite fails with
\* 'unhandled key in basic suite test definition: "K"' for a key K of a test
\* definition outside its dispatch table, and
\* convert_matrix_compound_suite with 'unhandled key in matrix config: "K"'
\* for a key K of a non-empty matrix config other than mixins and variants.
C8_TopLevelKeyMessage ==
    op \in {"basic", "matrix"} /\ pc \in {"done", "raised"}
    /\ KeyFailsFirst /\ First(Unrecognized).l = 0 =>
        /\ pc = "raised"
        /\ op = "basic" =>
             error = [kind |-> "Exception",
                      msg |-> <<"unhandled key in ", "basic suite test definition",
                                ": ", DQ>> \o First(Unrecognized).key \o <<DQ>>]
        /\ op = "matrix" =>
             error = [kind |-> "Exception",
                      msg |-> <<"unhandled key in ", "matrix config", ": ", DQ>>
                              \o First(Unrecognized).key \o <<DQ>>]

\* The key holds a double quote, and the message gives it as it is.
C8_Witness ==
    /\ Raised("matrix")
    /\ error.msg = <<"unhandled key in ", "matrix config", ": ", DQ, "k", DQ, "x", DQ>>
    /\ idx >= 1

----------------------------------------------------------------------------
(* Claims C9 and C10: arguments *)

\* C9: convert_arg returns the atom targets.magic_args.<CONSTANT> for each of
\* the eight entries of the table, and fails with a lookup error for every
\* other string that starts with $$MAGIC_SUBSTITUTION_, the bare prefix
\* included; such a string is never returned as a quoted literal.
C9_MagicTotal ==
    op = "arg" /\ pc \in {"done", "raised"} =>
        /\ \A e \in MagicTable :
              input.v = <<"$$MAGIC_SUBSTITUTION_", e[1]>> =>
                 /\ pc = "done"
                 /\ locals.ret = [t |-> "atom", s |-> <<"targets.magic_args.", e[2]>>]
                 /\ result = <<Returned("return", Some(<<"targets.magic_args.", e[2]>>))>>
        /\ UnknownMagic(input.v) =>
              /\ pc = "raised"
              /\ error = [kind |-> "KeyError", msg |-> input.v]
              /\ result = <<>>

\* convert_arg was called with the bare prefix.
C9_Witness ==
    /\ Raised("arg")
    /\ input.v = <<"$$MAGIC_SUBSTITUTION_">>
    /\ error.kind = "KeyError"

\* The atom convert_arg is to return for a string that it accepts.
ArgAtom(s) ==
    IF InTable(s)
    THEN [t |-> "atom",
          s |-> <<"targets.magic_args.",
                  (CHOOSE e \in MagicTable : e[1] = s[2])[2]>>]
    ELSE [t |-> "atom", s |-> Quoted(s)]

\* C10: for a string that does not start with the magic prefix, convert_arg
\* returns the atom convert_direct returns, the string between double
\* quotes; convert_args returns a list builder with one element per
\* argument, in input order, each the result of convert_arg.
C10_ArgsInOrder ==
    /\ op = "arg" /\ pc \in {"done", "raised"} /\ ~HasMagicPrefix(input.v) =>
         /\ pc = "done"
         /\ locals.ret = [t |-> "atom", s |-> Quoted(input.v)]
         /\ locals.ret = convert_direct(input).val
    /\ op = "args" /\ pc \in {"done", "raised"}
       /\ (\A i \in 1..Len(input.v) : ~UnknownMagic(input.v[i].v)) =>
         /\ pc = "done"
         /\ locals.ret.t = "tree" /\ locals.ret.b.kind = "list"
         /\ Len(locals.ret.b.items) = Len(input.v)
         /\ \A i \in 1..Len(input.v) :
               /\ locals.ret.b.items[i].v = ArgAtom(input.v[i].v)
               /\ locals.ret.b.items[i].v = convert_arg(input.v[i]).val

\* A list of a magic string and a plain string with a double quote, in that
\* order.
C10_Witness ==
    /\ Done("args")
    /\ Len(input.v) = 2
    /\ InTable(input.v[1].v)
    /\ ~HasMagicPrefix(input.v[2].v) /\ \E j \in 1..Len(input.v[2].v) : input.v[2].v[j] = DQ

----------------------------------------------------------------------------
(* Claims C11 to C16: convert_direct and the sub-schema converters *)

\* The value of a decimal digit, and of a sequence of decimal digits.
DigitValue(d) == CHOOSE n \in 0..9 : Digits[n + 1] = d
RECURSIVE DecimalValue(_)
DecimalValue(ds) ==
    IF ds = <<>> THEN 0
    ELSE 10 * DecimalValue(SubSeq(ds, 1, Len(ds) - 1)) + DigitValue(ds[Len(ds)])

IsDigits(ds) ==
    /\ ds # <<>>
    /\ \A i \in 1..Len(ds) : \E n \in 0..9 : ds[i] = Digits[n + 1]
    /\ Len(ds) > 1 => ds[1] # "0"

\* The text a is the decimal spelling of the integer n: its digits without
\* leading zero, after a minus sign if n is negative.
IsDecimalOf(a, n) ==
    IF n < 0
    THEN /\ Len(a) >= 2 /\ a[1] = "-"
         /\ IsDigits(Tail(a)) /\ DecimalValue(Tail(a)) = -n
    ELSE IsDigits(a) /\ DecimalValue(a) = n

\* C11: convert_direct maps None to the atom None, the booleans to the atoms
\* True and False and an integer to its decimal digits; a boolean is never
\* rendered as 1 or 0 and an integer is never rendered between quotes.
C11_Scalars ==
    op = "direct" /\ pc \in {"done", "raised"}
    /\ input.t \in {"none", "bool", "int"} =>
        /\ pc = "done"
        /\ locals.ret.t = "atom"
        /\ result = <<Returned("return", Some(locals.ret.s))>>
        /\ input.t = "none" => locals.ret.s = <<"None">>
        /\ input.t = "bool" =>
             /\ locals.ret.s = IF input.v THEN <<"True">> ELSE <<"False">>
             /\ locals.ret.s \notin {<<"1">>, <<"0">>}
        /\ input.t = "int" =>
             /\ IsDecimalOf(locals.ret.s, input.v)
             /\ \A i \in 1..Len(locals.ret.s) : locals.ret.s[i] # DQ

\* An integer of four digits was converted.
C11_Witness ==
    /\ Done("direct")
    /\ input.t = "int" /\ input.v >= 1000
    /\ Len(result[1].v.s) = 4

\* How often the symbol x stands in s.
Count(s, x) == Cardinality({i \in 1..Len(s) : s[i] = x})

\* C12: for a string s, convert_direct(s) is a double quote, then s with each
\* double quote replaced by backslash and double quote and every other
\* character, backslash and newline included, left as it is, then a double
\* quote.
C12_StringEscape ==
    op = "direct" /\ pc \in {"done", "raised"} /\ input.t = "str" =>
        LET a == locals.ret.s
            n == Len(input.v)
            \* where the character number i of the input stands in the atom
            at(i) == 1 + i + Count(SubSeq(input.v, 1, i), DQ)
        IN  /\ pc = "done"
            /\ locals.ret.t = "atom"
            /\ result = <<Returned("return", Some(a))>>
            /\ a = Quoted(input.v)
            /\ Len(a) = n + 2 + Count(input.v, DQ)
            /\ a[1] = DQ /\ a[Len(a)] = DQ
            /\ \A i \in 1..n :
                  /\ a[at(i)] = input.v[i]
                  /\ input.v[i] = DQ => a[at(i) - 1] = BS
            /\ Count(a, BS) = Count(input.v, BS) + Count(input.v, DQ)
            /\ Count(a, NL) = Count(input.v, NL)

\* A string with a backslash followed by a double quote was converted.
C12_Witness ==
    /\ Done("direct") /\ input.t = "str"
    /\ \E i \in 1..(Len(input.v) - 1) : input.v[i] = BS /\ input.v[i + 1] = DQ
    /\ result[1].v.s = <<DQ, "a", BS, BS, DQ, DQ>>

\* Converts(v, x): x is the value that the python value v converts to, at
\* every depth: an atom for None, a bool, an int and a str, a list builder
\* with one child per element in element order, a dict builder with one
\* pair per entry in iteration order.
RECURSIVE Converts(_, _)
Converts(v, x) ==
    CASE v.t = "none" -> x = [t |-> "atom", s |-> <<"None">>]
      [] v.t = "bool" ->
            x = [t |-> "atom", s |-> IF v.v THEN <<"True">> ELSE <<"False">>]
      [] v.t = "int" -> x.t = "atom" /\ IsDecimalOf(x.s, v.v)
      [] v.t = "str" -> x = [t |-> "atom", s |-> Quoted(v.v)]
      [] v.t = "list" ->
            /\ x.t = "tree" /\ x.b.kind = "list"
            /\ Len(x.b.items) = Len(v.v)
            /\ \A i \in 1..Len(v.v) :
                  x.b.items[i].k = <<>> /\ Converts(v.v[i], x.b.items[i].v)
      [] v.t = "dict" ->
            /\ x.t = "tree" /\ x.b.kind = "dict"
            /\ Len(x.b.items) = Len(v.v)
            /\ \A i \in 1..Len(v.v) :
                  /\ Converts(v.v[i][1], [t |-> "atom", s |-> x.b.items[i].k])
                  /\ Converts(v.v[i][2], x.b.items[i].v)
      [] OTHER -> FALSE

\* C13: convert_direct on a list returns a list builder with one child per
\* element, in element order, each child convert_direct of that element, at
\* every depth; on a dict it returns a dict builder with one pair
\* (convert_direct(key), convert_direct(value)) per entry, in the iteration
\* order of the dict.
C13_ListsAndDicts ==
    Done("direct") /\ input.t \in {"list", "dict"} =>
        /\ Converts(input, locals.ret)
        /\ input.t = "list" =>
             \A i \in 1..Len(input.v) :
                locals.ret.b.items[i].v = convert_direct(input.v[i]).val
        /\ input.t = "dict" =>
             \A i \in 1..Len(input.v) :
                /\ locals.ret.b.items[i].k = convert_direct(input.v[i][1]).val.s
                /\ locals.ret.b.items[i].v = convert_direct(input.v[i][2]).val

\* A dict of two entries was converted, whose first value is a list that
\* holds a dict and a list.
C13_Witness ==
    /\ Done("direct") /\ input.t = "dict" /\ Len(input.v) = 2
    /\ input.v[1][2].t = "list" /\ Len(input.v[1][2].v) = 2
    /\ input.v[1][2].v[1].t = "dict" /\ input.v[1][2].v[2].t = "list"
    /\ ParamNames(locals.ret.b) = <<<<DQ, "a", DQ>>, <<DQ, "q", BS, DQ, DQ>>>>

\* The repr() of the values of another type inside v, in the order in which
\* a conversion meets them: elements in order, the key of an entry before
\* its value.
RECURSIVE OthersOf(_)
OthersOf(v) ==
    CASE v.t = "other" -> <<v.v>>
      [] v.t = "list" -> Flatten([i \in 1..Len(v.v) |-> OthersOf(v.v[i])])
      [] v.t = "dict" ->
            Flatten([i \in 1..Len(v.v) |->
                        OthersOf(v.v[i][1]) \o OthersOf(v.v[i][2])])
      [] OTHER -> <<>>

\* C14: convert_direct of a value that is not None, a bool, an int, a str, a
\* list or a dict raises `unhandled python value: <repr of the value>`; the
\* same exception, with the repr of the inner value, ends the conversion
\* when such a value stands at any depth inside a list or a dict, and no
\* builder is returned.
C14_UnhandledValue ==
    op \in {"direct", "compound"} /\ pc \in {"done", "raised"} =>
        IF OthersOf(input) # <<>>
        THEN /\ pc = "raised"
             /\ error = [kind |-> "Exception",
                         msg |-> <<"unhandled python value: ">> \o OthersOf(input)[1]]
             /\ result = <<>>
             /\ locals.ret = NoVal
        ELSE pc = "done"

\* The value stands at depth 2 of a list: [[1.5]].
C14_Witness ==
    /\ Raised("direct")
    /\ input.t = "list" /\ Len(input.v) = 1
    /\ input.v[1].t = "list" /\ input.v[1].v[1].t = "other"
    /\ error.msg = <<"unhandled python value: ", "1.5">>

\* Reading starlark text back: the literals None, True and False, decimal
\* integers, string literals between double quotes (backslash, double quote
\* is a double quote; backslash, backslash is a backslash; a backslash
\* before any other character is an escape sequence or an error, and not
\* the two characters; a line break inside a literal is an error), lists
\* and dicts with an optional trailing comma.  A parse is [ok, val, pos],
\* pos the position after the value.
ParseFail == [ok |-> FALSE, val |-> PyNone, pos |-> 0]
Parsed(v, p) == [ok |-> TRUE, val |-> v, pos |-> p]
IsDigit(x) == \E n \in 0..9 : x = Digits[n + 1]

RECURSIVE SkipSpace(_, _)
SkipSpace(t, p) ==
    IF p <= Len(t) /\ t[p] \in {SP, NL} THEN SkipSpace(t, p + 1) ELSE p

RECURSIVE DigitsEnd(_, _)
DigitsEnd(t, p) ==
    IF p <= Len(t) /\ IsDigit(t[p]) THEN DigitsEnd(t, p + 1) ELSE p

RECURSIVE ParseString(_, _, _)
ParseString(t, q, acc) ==
    IF q > Len(t) \/ t[q] = NL THEN ParseFail
    ELSE IF t[q] = DQ THEN Parsed(PyStr(acc), q + 1)
    ELSE IF t[q] = BS
         THEN IF q + 1 > Len(t) THEN ParseFail
              ELSE IF t[q + 1] \in {DQ, BS}
                   THEN ParseString(t, q + 2, Append(acc, t[q + 1]))
                   ELSE ParseString(t, q + 2, Append(acc, "<escape>"))
    ELSE ParseString(t, q + 1, Append(acc, t[q]))

RECURSIVE ParseValue(_, _)
RECURSIVE ParseItems(_, _, _, _)
\* The elements of a list (close is "]") or the pairs of a dict ("}") from
\* position p on.
ParseItems(t, p, close, acc) ==
    LET q == SkipSpace(t, p)
        first == ParseValue(t, q)
        c == SkipSpace(t, first.pos)
        second == ParseValue(t, c + 1)
        item == IF close = "}" THEN <<first.val, second.val>> ELSE first.val
        e == SkipSpace(t, IF close = "}" THEN second.pos ELSE first.pos)
    IN  IF q > Len(t) THEN ParseFail
        ELSE IF t[q] = close
             THEN Parsed(IF close = "}" THEN PyDict(acc) ELSE PyList(acc), q + 1)
        ELSE IF ~first.ok THEN ParseFail
        ELSE IF close = "}" /\ (c > Len(t) \/ t[c] # ":" \/ ~second.ok) THEN ParseFail
        ELSE IF e > Len(t) THEN ParseFail
        ELSE IF t[e] = "," THEN ParseItems(t, e + 1, close, Append(acc, item))
        ELSE IF t[e] = close
             THEN Parsed(IF close = "}" THEN PyDict(Append(acc, item))
                         ELSE PyList(Append(acc, item)), e + 1)
        ELSE ParseFail

ParseValue(t, p) ==
    LET q == SkipSpace(t, p)
        neg == q <= Len(t) /\ t[q] = "-"
        from == IF neg THEN q + 1 ELSE q
        to == DigitsEnd(t, from)
        n == DecimalValue(SubSeq(t, from, to - 1))
    IN  IF q > Len(t) THEN ParseFail
        ELSE IF t[q] = "None" THEN Parsed(PyNone, q + 1)
        ELSE IF t[q] = "True" THEN Parsed(PyBool(TRUE), q + 1)
        ELSE IF t[q] = "False" THEN Parsed(PyBool(FALSE), q + 1)
        ELSE IF to > from THEN Parsed(PyInt(IF neg THEN -n ELSE n), to)
        ELSE IF t[q] = DQ THEN ParseString(t, q + 1, <<>>)
        ELSE IF t[q] = "[" THEN ParseItems(t, q + 1, "]", <<>>)
        ELSE IF t[q] = "{" THEN ParseItems(t, q + 1, "}", <<>>)
        ELSE ParseFail

\* Two python values are structurally equal.
RECURSIVE SameValue(_, _)
SameValue(a, b) ==
    /\ a.t = b.t
    /\ CASE a.t = "list" ->
              /\ Len(a.v) = Len(b.v)
              /\ \A i \in 1..Len(a.v) : SameValue(a.v[i], b.v[i])
         [] a.t = "dict" ->
              /\ Len(a.v) = Len(b.v)
              /\ \A i \in 1..Len(a.v) :
                    SameValue(a.v[i][1], b.v[i][1]) /\ SameValue(a.v[i][2], b.v[i][2])
         [] OTHER -> a.v = b.v

\* The whole text parses to the value v.
ParsesTo(text, v) ==
    LET r == ParseValue(text, 1)
    IN  /\ r.ok
        /\ SkipSpace(text, r.pos) = Len(text) + 1
        /\ SameValue(r.val, v)

\* Some string of v, at any depth, key or value, holds a backslash or a line
\* break.
RECURSIVE HasRawEscape(_)
HasRawEscape(v) ==
    CASE v.t = "str" -> \E i \in 1..Len(v.v) : v.v[i] \in {BS, NL}
      [] v.t = "list" -> \E i \in 1..Len(v.v) : HasRawEscape(v.v[i])
      [] v.t = "dict" ->
            \E i \in 1..Len(v.v) : HasRawEscape(v.v[i][1]) \/ HasRawEscape(v.v[i][2])
      [] OTHER -> FALSE

\* C15 as stated: for every value v built from None, booleans, integers,
\* strings, lists and dicts, the text of convert_direct(v) reads back as a
\* value structurally equal to v.
C15_AsStated ==
    Done("direct") => ~result[1].v.none /\ ParsesTo(result[1].v.s, input)

\* C15, amended: for every value v built from None, booleans, integers,
\* strings without backslash and without line break, lists and dicts, the
\* text of convert_direct(v) reads back as a value structurally equal to v.
C15_RoundTrip ==
    Done("direct") /\ ~HasRawEscape(input) =>
        ~result[1].v.none /\ ParsesTo(result[1].v.s, input)

\* A nested value with a double quote in a key was converted and read back.
C15_Witness ==
    /\ Done("direct") /\ input.t = "dict" /\ Len(input.v) = 2
    /\ ~HasRawEscape(input)
    /\ input.v[2][1].v = <<"q", DQ>>
    /\ input.v[1][2].t = "list"
    /\ ParsesTo(result[1].v.s, input)

\* The parameter name the translation table gives to an accepted key.
ParamNameOf(schema, key) ==
    CASE schema = "swarming" /\ key = <<"expiration">> -> <<"expiration_sec">>
      [] schema = "swarming" /\ key = <<"hard_timeout">> -> <<"hard_timeout_sec">>
      [] schema = "swarming" /\ key = <<"io_timeout">> -> <<"io_timeout_sec">>
      [] OTHER -> key

\* C16: each sub-schema converter gives the call one parameter per input
\* key, in input key order, with the value convert_direct(input value) and
\* the name of the translation table: the key itself, but expiration_sec,
\* hard_timeout_sec and io_timeout_sec for expiration, hard_timeout and
\* io_timeout of swarming; the names of the parameters are pairwise
\* different and as many as the input keys.
C16_SubSchemaParams ==
    op \in {"resultdb", "swarming", "skylab"} /\ pc = "done" =>
        LET b == locals.ret.b
        IN  /\ locals.ret.t = "tree" /\ b.kind = "call"
            /\ b.name = CASE op = "resultdb" -> <<"targets.resultdb">>
                           [] op = "swarming" -> <<"targets.swarming">>
                           [] op = "skylab" -> <<"targets.skylab">>
            /\ Len(b.items) = Len(input.v)
            /\ \A i \in 1..Len(input.v) :
                  /\ b.items[i].k = ParamNameOf(op, input.v[i][1].v)
                  /\ b.items[i].v = convert_direct(input.v[i][2]).val
                  /\ Converts(input.v[i][2], b.items[i].v)
            /\ \A i, j \in 1..Len(b.items) : i # j => b.items[i].k # b.items[j].k

\* convert_swarming was called with expiration and hard_timeout, in that
\* order.
C16_Witness ==
    /\ Done("swarming") /\ Len(input.v) = 2
    /\ input.v[1][1].v = <<"expiration">> /\ input.v[2][1].v = <<"hard_timeout">>
    /\ ParamNames(locals.ret.b) = <<<<"expiration_sec">>, <<"hard_timeout_sec">>>>

----------------------------------------------------------------------------
(* Claims C17 to C20: the results of the suite conversions *)

\* The text of a dict of the given key and value texts, opened on a line
\* indented by n.
DictText(keys, texts, n) ==
    <<"{", NL>>
    \o Lines([i \in 1..Len(texts) |-> keys[i] \o <<":", SP>> \o texts[i]], n + 2)
    \o Indent(n) \o <<"}">>

\* The converted names of the tests of the suite, in input order.
TestNames == [i \in 1..Len(input.v) |-> Quoted(input.v[i][1].v)]

\* The definition of test i is empty or holds ignored keys only.
IgnoredOnly(i) ==
    \A j \in 1..Len(TestDef(i)) : TestDef(i)[j][1].v \in IgnoredKeyNames

\* The result of a converted basic suite: the two entries; targets, the
\* names in input order; the builder of per_test_modifications, one entry
\* per test under its converted name in input order; and its text, with
\* the entry of every test (all) or of the tests whose modification renders
\* to text.
BasicResult(all) ==
    LET n == Len(input.v)
        shown == [i \in 1..n |-> ~EntryText(i).none]
        entries == [i \in 1..n |-> EntryText(i).s]
        per_test == heap[locals.per_test]
    IN  /\ Len(result) = 2
        /\ result[1].k = "targets" /\ result[2].k = "per_test_modifications"
        /\ heap[locals.targets] =
              ListValueBuilder([i \in 1..n |-> [t |-> "atom", s |-> TestNames[i]]])
        /\ n > 0 => result[1].v = Some(ListText(TestNames, 0))
        /\ per_test.kind = "dict"
        /\ ParamNames(per_test) = TestNames
        /\ \A i \in 1..n : per_test.items[i].v.t = "ref"
        /\ \A i, j \in 1..n : i # j => ModsId(i) # ModsId(j)
        /\ IF all
           THEN /\ \A i \in 1..n : shown[i]
                /\ n > 0 => result[2].v = Some(DictText(TestNames, entries, 0))
           ELSE /\ (\E i \in 1..n : shown[i]) =>
                      result[2].v = Some(DictText(Keep(TestNames, shown),
                                                  Keep(entries, shown), 0))
                /\ \A i \in 1..n :
                      /\ IgnoredOnly(i) => ~shown[i]
                      /\ HasKey(i, "remove_mixins") => shown[i]
                      /\ ~shown[i] =>
                            Occurrences(result[2].v.s,
                                        <<NL, SP, SP>> \o TestNames[i] \o <<":">>) = {}

C18_Compound ==
    op = "compound" /\ pc \in {"done", "raised"} =>
        LET n == Len(input.v)
            names == [i \in 1..n |-> Quoted(input.v[i].v)]
        IN  /\ (\A i \in 1..n : input.v[i].t = "str") =>
                /\ pc = "done"
                /\ Len(result) = 1 /\ result[1].k = "targets"
                /\ locals.ret = [t |-> "tree",
                                 b |-> ListValueBuilder(
                                        [i \in 1..n |-> [t |-> "atom", s |-> names[i]]])]
                /\ n > 0 => result[1].v = Some(ListText(names, 0))
            /\ pc = "raised" =>
                /\ error.kind = "Exception"
                /\ error.msg[1] = "unhandled python value: "
                /\ result = <<>>

\* A compound suite converted whose first name starts with the magic prefix
\* and is not in the table.
C18_Witness ==
    /\ Done("compound") /\ Len(input.v) = 2
    /\ HasMagicPrefix(input.v[1].v) /\ ~InTable(input.v[1].v)
    /\ OccursAt(result[1].v.s, <<"[", NL, SP, SP, DQ, "$$MAGIC_SUBSTITUTION_">>, 1)

\* The element of targets for entry i of a matrix compound suite: the name,
\* or the targets.bundle call with targets first and then the keys of the
\* matrix config in input key order.
BundleOf(i) ==
    LET name == [t |-> "atom", s |-> Quoted(input.v[i][1].v)]
        config == input.v[i][2].v
    IN  IF config = <<>> THEN name
        ELSE [t |-> "tree",
              b |-> [kind |-> "call", name |-> <<"targets.bundle">>, elide |-> <<>>,
                     items |-> <<[k |-> <<"targets">>, v |-> name]>>
                               \o [j \in 1..Len(config) |->
                                     [k |-> config[j][1].v,
                                      v |-> convert_direct(config[j][2]).val]]]]

\* C19: convert_matrix_compound_suite gives targets one element per entry,
\* in input order: the converted suite name when the matrix config of the
\* entry is empty, and otherwise a targets.bundle call whose first parameter
\* is targets = <converted suite name>, followed by one parameter per key
\* of the matrix config (mixins, variants) in input key order, with the
\* value convert_direct(value).
C19_Matrix ==
    Done("matrix") =>
        LET n == Len(input.v)
            list == heap[locals.targets]
            text(i) ==
                IF input.v[i][2].v = <<>> THEN Quoted(input.v[i][1].v)
                ELSE CallText(<<"targets.bundle">>, ParamNames(BundleOf(i).b),
                              [j \in 1..Len(BundleOf(i).b.items) |->
                                  RenderValue(heap, BundleOf(i).b.items[j].v, 4).s],
                              2)
        IN  /\ list.kind = "list" /\ Len(list.items) = n
            /\ \A i \in 1..n :
                  /\ list.items[i].v = BundleOf(i)
                  /\ \A j \in 1..Len(input.v[i][2].v) :
                        /\ input.v[i][2].v[j][1].v \in {<<"mixins">>, <<"variants">>}
                        /\ Converts(input.v[i][2].v[j][2], list.items[i].v.b.items[j + 1].v)
            /\ Len(result) = 1 /\ result[1].k = "targets"
            /\ n > 0 => result[1].v = Some(ListText([i \in 1..n |-> text(i)], 0))

\* A suite converted with an entry without matrix config and an entry that
\* gives variants before mixins.
C19_Witness ==
    /\ Done("matrix")
    /\ \E i, j \in 1..Len(input.v) :
        /\ input.v[i][2].v = <<>>
        /\ Len(input.v[j][2].v) = 2
        /\ input.v[j][2].v[1][1].v = <<"variants">>
        /\ ParamNames(heap[locals.targets].items[j].v.b)
             = <<<<"targets">>, <<"variants">>, <<"mixins">>>>

\* The lines of a text: the pieces between its line breaks.
SplitLines(text) ==
    LET breaks == {j \in 1..Len(text) : text[j] = NL}
        \* the position of line break number k; 0 and Len(text) + 1 stand
        \* for the ends of the text
        break(k) ==
            IF k = 0 THEN 0
            ELSE IF k > Cardinality(breaks) THEN Len(text) + 1
            ELSE CHOOSE j \in breaks : Cardinality({b \in breaks : b < j}) = k - 1
    IN  [k \in 1..(Cardinality(breaks) + 1) |->
            SubSeq(text, break(k - 1) + 1, break(k) - 1)]

RECURSIVE LeadingSpaces(_)
LeadingSpaces(line) ==
    IF line # <<>> /\ Head(line) = SP THEN 1 + LeadingSpaces(Tail(line)) ELSE 0

Openers == {"(", "[", "{"}
Closers == {")", "]", "}"}

\* The lines from number i on are well formed, the lines before them
\* having left depth builders open: a line stands at two spaces per open
\* builder, the closing delimiter of a builder at the level of the line that
\* opened it; a line inside a builder opens a builder or ends with a comma;
\* the last line closes the last open builder and ends without comma.
RECURSIVE WellFormedFrom(_, _, _)
WellFormedFrom(lines, i, depth) ==
    IF i > Len(lines) THEN depth = 0
    ELSE LET line == lines[i]
             indent == LeadingSpaces(line)
             closes == indent < Len(line) /\ line[indent + 1] \in Closers
             level == IF closes THEN depth - 1 ELSE depth
             opens == line[Len(line)] \in Openers
         IN  /\ line # <<>> /\ indent < Len(line)
             /\ level >= 0
             /\ indent = 2 * level
             /\ \A j \in (indent + 1)..Len(line) : line[j] = SP => j > indent + 1 /\ j < Len(line)
             /\ IF i = Len(lines)
                THEN ~opens /\ level = 0 /\ line[Len(line)] # ","
                ELSE opens \/ (level >= 1 /\ line[Len(line)] = ",")
             /\ level = 0 /\ i > 1 => i = Len(lines)
             /\ WellFormedFrom(lines, i + 1, IF opens THEN level + 1 ELSE level)

WellFormed(text) ==
    /\ text # <<>>
    /\ text[Len(text)] # NL
    /\ WellFormedFrom(SplitLines(text), 1, 0)

\* C20: every text returned by a suite conversion has no line break at its
\* end, every line but the last ends with a line break, each line is
\* indented by two spaces per nesting level of the builder it belongs to,
\* opening and closing delimiters standing at the enclosing level, and
\* every list element, dict pair and call parameter is followed by a comma,
\* the last one included.
C20_OutputFormat ==
    op \in {"basic", "compound", "matrix"} /\ pc = "done" =>
        \A k \in 1..Len(result) :
            ~result[k].v.none /\ WellFormed(result[k].v.s)

\* A text with lines at three nesting levels: the names of remove_mixins in
\* the wrapper call of an entry of per_test_modifications.
C20_Witness ==
    /\ Done("basic")
    /\ \E i \in Tests : HasKey(i, "remove_mixins") /\ Len(ValueOf(i, "remove_mixins").v) > 0
    /\ Occurrences(result[2].v.s, <<NL, SP, SP, SP, SP, SP, SP, DQ, "r", "1", DQ, ",", NL>>) # {}


----------------------------------------------------------------------------
(* Claims C21 to C30 *)

Ended == pc \in {"done", "raised"}

\* C21: two runs of the same suite conversion (convert_basic_suite,
\* convert_compound_suite, convert_matrix_compound_suite) on equal inputs
\* end alike: both return, with the same text under every key of the result,
\* or both raise the same exception with the same message.
C21_Determinism ==
    Ended /\ op \in {"basic", "compound", "matrix"} =>
        \A k \in 1..Len(history) :
            history[k].op = op /\ history[k].input = input =>
                /\ history[k].result = result
                /\ history[k].error = error
                /\ (result = <<>>) # (error = NoErr)

\* A basic suite of two tests was converted twice in a row, and returned
\* text both times.
C21_Witness ==
    /\ Done("basic") /\ Len(input.v) = 2
    /\ Len(history) = 1 /\ history[1].op = op /\ history[1].input = input
    /\ Len(result) = 2 /\ ~result[2].v.none
    /\ Occurrences(result[2].v.s, <<"targets.mixin", "(">>) # {}


NotIgnored(kv) == kv[1].v \notin IgnoredKeyNames

\* The suite without the ignored keys of its test definitions.
StripIgnored(suite) ==
    PyDict([i \in 1..Len(suite.v) |->
              <<suite.v[i][1], PyDict(SelectSeq(suite.v[i][2].v, NotIgnored))>>])

\* C22: convert_basic_suite accepts and ignores the keys results_handler,
\* script, telemetry_test_name, test and test_common: with any of them, of
\* any value and at any position of a test definition, the call ends as it
\* does on the suite without them, with the same result or the same
\* exception, and none of them makes it raise.
C22_IgnoredKeys ==
    Ended /\ op = "basic" =>
        LET without == convert_basic_suite(StripIgnored(input))
        IN  /\ result = without.result
            /\ error = without.error

\* A definition with a field and, after it, an ignored key whose value no
\* conversion accepts was converted.
C22_Witness ==
    /\ Done("basic") /\ Len(input.v) = 1
    /\ Len(TestDef(1)) = 2
    /\ TestDef(1)[1][1].v = S("ci_only")
    /\ TestDef(1)[2][1].v = S("results_handler") /\ TestDef(1)[2][2].t = "other"
    /\ Occurrences(result[2].v.s, <<"ci_only", SP, "=", SP, "True">>) # {}


DirectKeyNames ==
    {<<"ci_only">>, <<"experiment_percentage">>, <<"use_isolated_scripts_api">>}

IsMixinField(kv) == kv[1].v \in DirectKeyNames \cup ArgsKeyNames
IsMixinFieldParam(item) == item.k \in DirectKeyNames \cup ArgsKeyNames

\* The anonymous mixin of test i.
Anon(i) == heap[AnonId(i)]

\* The list builder of the arguments args: a constant of targets.magic_args
\* for a magic string, the string literal for any other.
ArgsBuilder(args) ==
    [t |-> "tree",
     b |-> [kind |-> "list", name |-> <<>>, elide |-> <<>>,
            items |-> [l \in 1..Len(args.v) |->
                          [k |-> <<>>, v |-> ArgAtom(args.v[l].v)]]]]

\* C23: in convert_basic_suite, the keys ci_only, experiment_percentage,
\* use_isolated_scripts_api and the six argument-list keys of a test
\* definition each become one parameter of the test's anonymous
\* targets.mixin call, of the same name and in input key order; the first
\* three carry convert_direct(value), the six others carry
\* convert_args(value), where a magic string stands as its constant of
\* targets.magic_args.
C23_MixinFields ==
    Done("basic") =>
        \A i \in Tests :
            LET fields == SelectSeq(TestDef(i), IsMixinField)
                params == SelectSeq(Anon(i).items, IsMixinFieldParam)
            IN  /\ Anon(i).kind = "call" /\ Anon(i).name = <<"targets.mixin">>
                /\ Len(params) = Len(fields)
                /\ \A j \in 1..Len(fields) :
                      /\ params[j].k = fields[j][1].v
                      /\ fields[j][1].v \in DirectKeyNames =>
                            params[j].v = convert_direct(fields[j][2]).val
                      /\ fields[j][1].v \in ArgsKeyNames =>
                            /\ params[j].v = convert_args(fields[j][2]).val
                            /\ params[j].v = ArgsBuilder(fields[j][2])

\* A definition with an argument list that holds a magic string and, after
\* it, a key converted directly: two parameters in that order, the magic
\* string as its constant.
C23_Witness ==
    /\ Done("basic") /\ Len(input.v) = 1
    /\ Len(TestDef(1)) = 2
    /\ TestDef(1)[1][1].v = S("args")
    /\ TestDef(1)[2][1].v = S("experiment_percentage")
    /\ ParamNames(Anon(1)) = <<S("args"), S("experiment_percentage")>>
    /\ Anon(1).items[1].v.b.items[1].v.s = <<"targets.magic_args.", "GPU_PARALLEL_JOBS">>
    /\ Anon(1).items[2].v.s = <<"5", "0">>


\* The function called for a key that holds a sub-schema mapping.
CallTarget(key) ==
    CASE key \in {<<"swarming">>, <<"android_swarming">>, <<"chromeos_swarming">>} ->
            <<"targets.swarming">>
      [] key = <<"resultdb">> -> <<"targets.resultdb">>
      [] key = <<"skylab">> -> <<"targets.skylab">>

SubSchemaKeyNames ==
    {<<"swarming">>, <<"android_swarming">>, <<"chromeos_swarming">>,
     <<"resultdb">>, <<"skylab">>}

IsSubSchemaField(kv) == kv[1].v \in SubSchemaKeyNames
IsSubSchemaParam(item) == item.k \in SubSchemaKeyNames

\* C24: in convert_basic_suite, the keys swarming, android_swarming and
\* chromeos_swarming each give the anonymous mixin a parameter of the same
\* name whose value is a targets.swarming call, the same function for the
\* three; resultdb gives the parameter resultdb with a targets.resultdb
\* call, and skylab the parameter skylab with a targets.skylab call.
C24_SubSchemaFields ==
    Done("basic") =>
        \A i \in Tests :
            LET fields == SelectSeq(TestDef(i), IsSubSchemaField)
                params == SelectSeq(Anon(i).items, IsSubSchemaParam)
            IN  /\ Len(params) = Len(fields)
                /\ \A j \in 1..Len(fields) :
                      /\ params[j].k = fields[j][1].v
                      /\ params[j].v.t = "tree"
                      /\ params[j].v.b.kind = "call"
                      /\ params[j].v.b.name = CallTarget(fields[j][1].v)
                      /\ params[j].v.b.elide = <<>>
                      /\ Len(params[j].v.b.items) = Len(fields[j][2].v)

\* A definition with chromeos_swarming was converted: the parameter
\* chromeos_swarming is a targets.swarming call with expiration_sec and
\* dimensions.
C24_Witness ==
    /\ Done("basic") /\ Len(input.v) = 1
    /\ HasKey(1, "chromeos_swarming")
    /\ \E j \in 1..Len(Anon(1).items) :
          /\ Anon(1).items[j].k = S("chromeos_swarming")
          /\ Anon(1).items[j].v.b.name = <<"targets.swarming">>
          /\ ParamNames(Anon(1).items[j].v.b) = <<S("expiration_sec"), S("dimensions")>>
    /\ Occurrences(result[2].v.s,
                   <<"chromeos_swarming", SP, "=", SP, "targets.swarming", "(">>) # {}


\* The law of the full call for the call builder b of heap h, rendered as
\* out on a line indented by n: a builder without elision parameter, or
\* with one parameter that is not its elision parameter, renders as
\* name(, one line `param = value,` per parameter in insertion order, and ).
\* With every, this is said of every such builder; without, of those that
\* have a parameter and whose parameters all render to text.
FullCallLaw(h, b, out, n, every) ==
    LET outs == [j \in 1..Len(b.items) |-> RenderValue(h, b.items[j].v, n + 2)]
        covered ==
            /\ b.kind = "call"
            /\ \/ b.elide = <<>>
               \/ Len(b.items) = 1 /\ b.items[1].k # b.elide
            /\ every \/ (Len(b.items) >= 1 /\ \A j \in 1..Len(b.items) : ~outs[j].none)
    IN  covered =>
            out = Some(CallText(b.name, ParamNames(b),
                                [j \in 1..Len(b.items) |-> outs[j].s], n))

\* The values of the container builder b that are calls, as builders.
CallsIn(b) ==
    {b.items[j].v.b : j \in {l \in 1..Len(b.items) :
                                b.items[l].v.t = "tree" /\ b.items[l].v.b.kind = "call"}}

FullCallLawHolds(every) ==
    /\ Done("builder") /\ input.kind = "call" =>
          FullCallLaw(heap, heap[1], result[1].v, 0, every)
    /\ (Done("resultdb") \/ Done("swarming") \/ Done("skylab")) /\ Len(input.v) >= 1 =>
          /\ locals.ret.b.elide = <<>>
          /\ locals.ret.b.name = CallTarget(<<op>>)
          /\ FullCallLaw(heap, locals.ret.b, result[1].v, 0, every)
    /\ Done("basic") =>
          \A i \in Tests :
             /\ FullCallLaw(heap, Anon(i), AnonText(i, 2), 2, every)
             /\ \A c \in CallsIn(Anon(i)) :
                   FullCallLaw(heap, c, RenderBuilder(heap, c, 4), 4, every)
    /\ Done("matrix") =>
          \A c \in CallsIn(heap[locals.targets]) :
             /\ c.name = <<"targets.bundle">> /\ c.elide = <<>>
             /\ FullCallLaw(heap, c, RenderBuilder(heap, c, 2), 2, every)

\* C25 as stated: a call builder that has no elision parameter, or whose
\* single parameter is not the elision parameter, always renders as the
\* full call, name(, one line per parameter in insertion order, and ), also
\* with exactly one parameter; targets.resultdb, targets.swarming,
\* targets.skylab, targets.mixin and targets.bundle calls are never rendered
\* as a bare value.
C25_AsStated == FullCallLawHolds(TRUE)

\* C25, amended: such a call builder renders as the full call when it has
\* at least one parameter and each of its parameters renders to text, also
\* with exactly one parameter; targets.resultdb, targets.swarming,
\* targets.skylab, targets.mixin and targets.bundle calls are never rendered
\* as a bare value.
C25_FullCall == FullCallLawHolds(FALSE)

\* A call builder with elision parameter p took the single parameter q, and
\* is rendered as the call f(q = ...).
C25_Witness ==
    /\ Done("builder") /\ input.kind = "call" /\ input.elide = S("p")
    /\ ParamNames(heap[1]) = <<S("q")>>
    /\ result[1].v = Some(<<"f", "(", NL, SP, SP, "q", SP, "=", SP, "1", ",", NL, ")">>)


\* Of the assignments made so far to the builder of this run, the positions
\* of the first assignment to each key, and the position of the last
\* assignment to the key first assigned at position a.
FirstSets == {a \in 1..idx : \A c \in 1..(a - 1) : input.sets[c][1] # input.sets[a][1]}
LastSet(a) ==
    CHOOSE c \in a..idx :
        /\ input.sets[c][1] = input.sets[a][1]
        /\ \A e \in (c + 1)..idx : input.sets[e][1] # input.sets[a][1]

\* The first assignments in the order they were made.
FirstSetsInOrder ==
    [n \in 1..Cardinality(FirstSets) |->
        CHOOSE a \in FirstSets : Cardinality({c \in FirstSets : c <= a}) = n]

\* C26: key assignment on a DictBuilder is mapping assignment, whatever the
\* sequence of assignments: the keys stay pairwise different, an assignment
\* to a key that is there replaces its value and leaves the key where its
\* first assignment put it, an assignment to a new key puts it at the end,
\* and the rendering lists the pairs in that order.  In convert_basic_suite
\* every assignment to per_test_modifications_builder is one to a new key:
\* the converted names of the tests, in input order.
C26_DictAssignment ==
    /\ op = "builder" /\ input.kind = "dict" /\ pc \in {"loop", "done"} =>
          LET b == heap[1]
              order == FirstSetsInOrder
              texts == [n \in 1..Len(order) |->
                          RenderValue(heap, input.sets[LastSet(order[n])][2], 2).s]
          IN  /\ b.kind = "dict"
              /\ Len(b.items) = Len(order)
              /\ \A n, l \in 1..Len(b.items) : n # l => b.items[n].k # b.items[l].k
              /\ \A n \in 1..Len(order) :
                    /\ b.items[n].k = input.sets[order[n]][1]
                    /\ b.items[n].v = input.sets[LastSet(order[n])][2]
              /\ pc = "done" =>
                    result[1].v = IF order = <<>> THEN Some(<<"{", "}">>)
                                  ELSE Some(DictText(ParamNames(b), texts, 0))
    /\ op = "basic" /\ pc \in {"loop", "done"} =>
          LET b == heap[locals.per_test]
          IN  /\ b.kind = "dict"
              /\ ParamNames(b) = [i \in 1..idx |-> Quoted(input.v[i][1].v)]
              /\ \A n, l \in 1..Len(b.items) : n # l => b.items[n].k # b.items[l].k

\* p, then q, then p again with another value: the dict lists p with the
\* second value, then q.
C26_Witness ==
    /\ Done("builder") /\ input.kind = "dict"
    /\ Len(input.sets) = 3
    /\ input.sets[1][1] = S("p") /\ input.sets[2][1] = S("q") /\ input.sets[3][1] = S("p")
    /\ input.sets[1][2] # input.sets[3][2]
    /\ input.sets[3][2] = Atom(S("1"))
    /\ OccursAt(result[1].v.s, <<"{", NL, SP, SP, "p", ":", SP, "1", ",", NL, SP, SP, "q", ":">>, 1)


SuiteCall == op \in {"basic", "compound", "matrix"}

\* What was rendered at each point of a suite conversion: nothing before the
\* call returns, nothing if it raises, and each top-level builder once when
\* it returns.
RenderedOnce ==
    SuiteCall =>
        /\ pc \in {"start", "loop", "raised"} => renders = <<>>
        /\ pc = "raised" => result = <<>>
        /\ Done("basic") =>
              /\ renders = <<locals.targets, locals.per_test>>
              /\ locals.targets # locals.per_test
              /\ Len(result) = Len(renders)
        /\ Done("matrix") => renders = <<locals.targets>> /\ Len(result) = 1
        /\ Done("compound") => Len(renders) = 1 /\ Len(result) = 1

\* One step of a suite conversion: the first step creates the builders of
\* the call, empty; a step that renders changes no builder and ends the
\* call; after a render no builder changes.
LifecycleStep ==
    SuiteCall =>
        /\ pc = "start" /\ pc' = "loop" =>
              /\ heap' # <<>>
              /\ \A id \in DOMAIN heap' : heap'[id].items = <<>>
        /\ renders' # renders /\ renders' # <<>> => heap' = heap /\ pc' = "done"
        /\ renders # <<>> => heap' = heap

\* C27: in every suite conversion, each builder is created inside the
\* call; every change of a builder and of the builders nested in it (append,
\* assignment of a parameter or a key) happens before the call renders any
\* text; each top-level builder is rendered exactly once; and no builder
\* changes after a render.
C27_Lifecycle == []RenderedOnce /\ [][LifecycleStep]_vars

\* A basic suite of two tests was converted by the second call of a caller:
\* its two top-level builders are rendered once each, after the builders of
\* the two tests were filled.
C27_Witness ==
    /\ Done("basic") /\ Len(input.v) = 2 /\ Len(history) = 1
    /\ renders = <<1, 2>>
    /\ Len(heap) >= 6
    /\ \A i \in Tests : Len(Mods(i).items) >= 1


\* A call that ended did so as the function of its input says.
EndsAsFunction ==
    Ended /\ SuiteCall =>
        /\ result = SuiteConversion(op, input).result
        /\ error = SuiteConversion(op, input).error

\* A step of a call leaves the input of the call, and what the caller holds
\* of the calls before it, as they are.
InputStep ==
    SuiteCall /\ ~Ended => input' = input /\ op' = op /\ history' = history

\* C28: a suite conversion is independent of the calls around it and has no
\* side effect: it leaves its input as it is, keeps no state from one call
\* to the next, and ends as it would had no call been made before it,
\* whatever calls came first, returned or raised.
C28_Independent == []EndsAsFunction /\ [][InputStep]_vars

\* A matrix compound suite was converted after a call of convert_basic_suite
\* that raised.
C28_Witness ==
    /\ Done("matrix") /\ Len(input.v) = 2
    /\ Len(history) = 1
    /\ history[1].op = "basic" /\ history[1].error.kind = "Exception"
    /\ Occurrences(result[1].v.s, <<"targets.bundle", "(">>) # {}


IsMixinsKey(kv) == kv[1].v = <<"mixins">>
NotMixinsKey(kv) == kv[1].v # <<"mixins">>

\* The suite with the key mixins of every test definition moved to the
\* first place, or to the last.
MixinsMoved(suite, first) ==
    PyDict([i \in 1..Len(suite.v) |->
              LET def == suite.v[i][2].v
                  there == SelectSeq(def, IsMixinsKey)
                  others == SelectSeq(def, NotMixinsKey)
              IN  <<suite.v[i][1],
                    PyDict(IF first THEN there \o others ELSE others \o there)>>])

\* C29: in convert_basic_suite the anonymous mixin of a test does not depend
\* on the place of the key mixins among the keys of the test definition: the
\* first element of the explicit mixin list is the anonymous mixin builder
\* itself, so the fields of the keys that come after mixins are in it like
\* those of the keys that come before, and the result is the one of the
\* suite with mixins as first or as last key.
C29_MixinsAnywhere ==
    Done("basic") =>
        /\ \A i \in Tests :
              HasKey(i, "mixins") =>
                 LET fields == SelectSeq(TestDef(i), IsMixinField)
                     subs == SelectSeq(TestDef(i), IsSubSchemaField)
                     list == heap[MixinsValue(i).id]
                 IN  /\ MixinsValue(i).t = "ref" /\ list.kind = "list"
                     /\ list.items[1].v = [t |-> "ref", id |-> AnonId(i)]
                     /\ Len(Anon(i).items) = Len(fields) + Len(subs)
        /\ result = convert_basic_suite(MixinsMoved(input, TRUE)).result
        /\ result = convert_basic_suite(MixinsMoved(input, FALSE)).result

\* A definition with mixins as first key and ci_only after it was converted:
\* the first element of the mixin list is the anonymous mixin with ci_only.
C29_Witness ==
    /\ Done("basic") /\ Len(input.v) = 1
    /\ Len(TestDef(1)) = 2
    /\ TestDef(1)[1][1].v = S("mixins") /\ Len(TestDef(1)[1][2].v) = 2
    /\ TestDef(1)[2][1].v = S("ci_only")
    /\ OccursAt(result[2].v.s,
                <<"{", NL, SP, SP, DQ, "t", "1", DQ, ":", SP, "[", NL,
                  SP, SP, SP, SP, "targets.mixin", "(", NL,
                  SP, SP, SP, SP, SP, SP, "ci_only", SP, "=", SP, "True", ",", NL>>, 1)


\* The magic strings of the table among the arguments of the argument-list
\* keys of the suite, by test, key and place in the list.
MagicArguments ==
    {p \in UNION {UNION {{<<i, j, l>> : l \in 1..Len(ValueAt(i, j).v)} :
                            j \in {m \in KeysOf(i) : KeyAt(i, m) \in ArgsKeyNames}} :
                     i \in Entries} :
        InTable(ValueAt(p[1], p[2]).v[p[3]].v)}

\* Some argument of an argument-list key is a magic string outside the
\* table.
UnknownMagicArgument ==
    \E i \in Entries : \E j \in KeysOf(i) :
        /\ KeyAt(i, j) \in ArgsKeyNames
        /\ \E l \in 1..Len(ValueAt(i, j).v) : UnknownMagic(ValueAt(i, j).v[l].v)

\* The constants of targets.magic_args in the text under key r of the
\* result.
Constants(r) == Count(result[r].v.s, "targets.magic_args.")

\* The values of the builder at heap id, from the second on, are the
\* conversions of the elements of the list names.
NamedAfterFirst(id, names) ==
    /\ Len(heap[id].items) = Len(names.v) + 1
    /\ \A l \in 1..Len(names.v) : Converts(names.v[l], heap[id].items[l + 1].v)

\* C30: magic substitution is made inside the six argument-list keys only.
\* A string that starts with the magic prefix and stands anywhere else (a
\* test name, an element of mixins or remove_mixins, a value inside
\* swarming, resultdb or skylab, a name or a config value of a compound or
\* matrix compound suite) is converted by convert_direct to the string
\* literal between double quotes, never to a constant of targets.magic_args,
\* and raises no lookup error, in the table or not.
C30_MagicOnlyInArgs ==
    /\ Ended /\ op \in {"compound", "matrix", "direct", "resultdb", "swarming", "skylab"} =>
          /\ error.kind # "KeyError"
          /\ pc = "done" => \A r \in 1..Len(result) : Constants(r) = 0
    /\ Done("compound") => Converts(input, locals.ret)
    /\ Done("matrix") =>
          \A i \in Entries :
             LET item == heap[locals.targets].items[i].v
             IN  IF KeysOf(i) = {} THEN Converts(input.v[i][1], item)
                 ELSE /\ Converts(input.v[i][1], item.b.items[1].v)
                      /\ \A j \in KeysOf(i) :
                            Converts(ValueAt(i, j), item.b.items[j + 1].v)
    /\ (Done("resultdb") \/ Done("swarming") \/ Done("skylab")) =>
          \A j \in 1..Len(input.v) :
             Converts(input.v[j][2], locals.ret.b.items[j].v)
    /\ Ended /\ op = "basic" /\ error.kind = "KeyError" => UnknownMagicArgument
    /\ Done("basic") =>
          /\ Constants(1) = 0
          /\ Constants(2) = Cardinality(MagicArguments)
          /\ \A i \in Tests :
                /\ Converts(input.v[i][1], heap[locals.targets].items[i].v)
                /\ Converts(input.v[i][1],
                            [t |-> "atom", s |-> heap[locals.per_test].items[i].k])
                /\ HasKey(i, "mixins") =>
                      NamedAfterFirst(MixinsValue(i).id, ValueOf(i, "mixins"))
                /\ HasKey(i, "remove_mixins") =>
                      NamedAfterFirst(Param(Mods(i), <<"remove_mixins">>).id,
                                      ValueOf(i, "remove_mixins"))
                /\ \A j \in KeysOf(i) :
                      /\ KeyAt(i, j) \in DirectKeyNames =>
                            Converts(ValueAt(i, j), Param(Anon(i), KeyAt(i, j)))
                      /\ KeyAt(i, j) \in SubSchemaKeyNames =>
                            \A l \in 1..Len(ValueAt(i, j).v) :
                               Converts(ValueAt(i, j).v[l][2],
                                        Param(Anon(i), KeyAt(i, j)).b.items[l].v)

\* A matrix compound suite whose names and config values are magic strings,
\* in the table and outside it, was converted: they stand as string
\* literals.
C30_Witness ==
    /\ Done("matrix") /\ Len(input.v) = 2
    /\ HasMagicPrefix(input.v[1][1].v) /\ UnknownMagic(input.v[2][1].v)
    /\ OccursAt(result[1].v.s,
                <<"[", NL, SP, SP, DQ, "$$MAGIC_SUBSTITUTION_", "GPUParallelJobs", DQ, ",", NL,
                  SP, SP, "targets.bundle", "(", NL,
                  SP, SP, SP, SP, "targets", SP, "=", SP,
                  DQ, "$$MAGIC_SUBSTITUTION_", "Bogus", DQ, ",", NL>>, 1)
    /\ Count(result[1].v.s, "$$MAGIC_SUBSTITUTION_") = 4

====
